---- MODULE Spec2Model ----
(***************************************************************************)
(* A model of the SmartApp lifecycle core of smartapp-sensortrack:         *)
(*   - smartapp/converter.py   (parsing of lifecycle requests)             *)
(*   - smartapp/dispatcher.py  (SmartAppDispatcher)                        *)
(*   - smartapp/signature.py   (SignatureVerifier, retrieve_public_key)    *)
(*   - smartapp/interface.py   (request context, configuration, errors)    *)
(*                                                                         *)
(* Every operation of the program is synchronous, so each is one action    *)
(* that takes its inputs from small sets and records its input, the events *)
(* it caused (log), the number of key-server requests it issued and its    *)
(* outcome (a returned value or a raised exception).                       *)
(***************************************************************************)
EXTENDS Integers, Sequences, FiniteSets, TLC

VARIABLES
    config,      \* SmartAppDispatcherConfig of the process
    definition,  \* SmartAppDefinition of the process
    cache,       \* lru_cache of retrieve_public_key, least recently used first
    op,          \* the operation that ran last
    inp,         \* its input
    out,         \* its outcome
    log,         \* the calls it made, in order
    netcalls,    \* the key-server requests it issued
    threads      \* the call of retrieve_public_key that each thread is in

vars == <<config, definition, cache, op, inp, out, log, netcalls, threads>>

(***************************************************************************)
(* Bounds of the model.                                                    *)
(***************************************************************************)
MaxPages == 2       \* definitions have 0..MaxPages configuration pages
MaxRetryFail == 6   \* a key fetch sees 0..MaxRetryFail retryable failures in a row
MaxThreads == 2     \* threads 1..MaxThreads call the key fetch
MaxRefetch == 4     \* calls of the key fetch after the cache has filled
MaxWalkPages == 8   \* a walk is through 1..MaxWalkPages configuration pages

(***************************************************************************)
(* Values shared by the modules.                                           *)
(***************************************************************************)
None == "None"

LifecyclePhase ==
    {"CONFIRMATION", "CONFIGURATION", "INSTALL", "UPDATE", "UNINSTALL", "OAUTH_CALLBACK", "EVENT"}

ConfigPhase == {"INITIALIZE", "PAGE"}

ConfigValueType == {"DEVICE", "STRING"}

CORRELATION_ID_HEADER == "x-st-correlation"
AUTHORIZATION_HEADER == "authorization"
DATE_HEADER == "date"

\* a value returned by an operation
Return(v) == [kind |-> "return", value |-> v]

\* an exception that escapes an operation: its class, message, the value the
\* message names, and the correlation id it carries
Raise(cls, msg, arg, corr) == [kind |-> "raise", exc |-> cls, message |-> msg, arg |-> arg, correlation_id |-> corr]

IsRaise(o) == o.kind = "raise"

\* SmartAppError subclasses of interface.py
SmartAppErrors == {"SmartAppError", "InternalError", "BadRequestError", "SignatureError"}

(***************************************************************************)
(* Python strings that the code converts to and from integers: page ids.   *)
(* A string is a sequence of characters.                                   *)
(***************************************************************************)
Digits == <<"0", "1", "2", "3", "4", "5", "6", "7", "8", "9">>

IsDigit(c) == \E i \in 1..10 : Digits[i] = c

DigitVal(c) == (CHOOSE i \in 1..10 : Digits[i] = c) - 1

RECURSIVE DigitsToNat(_)
DigitsToNat(s) ==
    IF s = <<>> THEN 0 ELSE 10 * DigitsToNat(SubSeq(s, 1, Len(s) - 1)) + DigitVal(s[Len(s)])

RECURSIVE Strip(_)
Strip(s) ==
    IF s = <<>> THEN s
    ELSE IF s[1] = " " THEN Strip(Tail(s))
    ELSE IF s[Len(s)] = " " THEN Strip(SubSeq(s, 1, Len(s) - 1))
    ELSE s

\* int(s): surrounding whitespace and one sign are accepted, then decimal digits
IntBody(s) == IF s # <<>> /\ s[1] \in {"+", "-"} THEN Tail(s) ELSE s

IntParses(s) ==
    LET b == IntBody(Strip(s))
    IN  b # <<>> /\ \A i \in 1..Len(b) : IsDigit(b[i])

ParseInt(s) ==
    LET t == Strip(s)
        n == DigitsToNat(IntBody(t))
    IN  IF t[1] = "-" THEN 0 - n ELSE n

RECURSIVE NatToStr(_)
NatToStr(n) == IF n < 10 THEN <<Digits[n + 1]>> ELSE NatToStr(n \div 10) \o <<Digits[(n % 10) + 1]>>

\* str(n)
IntToStr(n) == IF n < 0 THEN <<"-">> \o NatToStr(0 - n) ELSE NatToStr(n)

NoneStr == <<"None">>   \* Python's None where a string is optional; no str has this form

(***************************************************************************)
(* smartapp/converter.py: CONVERTER.from_json(data, LifecycleRequest).     *)
(*                                                                         *)
(* A request body is described by what the parser looks at: whether it is  *)
(* JSON at all, the value of its lifecycle field, whether the fields the   *)
(* phase requires are present, the configuration phase and page id, the    *)
(* valueType of the config values it carries, and the remaining data.      *)
(***************************************************************************)
MkBody(json, lifecycle, complete, cphase, page_id, value_type, execution_id) ==
    [json |-> json, lifecycle |-> lifecycle, complete |-> complete, phase |-> cphase,
     page_id |-> page_id, value_type |-> value_type, execution_id |-> execution_id]

\* the phases whose request carries config values (configuration_data.config,
\* installed_app.config)
PhasesWithConfig == {"CONFIGURATION", "INSTALL", "UPDATE", "UNINSTALL", "EVENT"}

\* the typed request that structuring yields
MkRequest(b) ==
    [lifecycle |-> b.lifecycle, execution_id |-> b.execution_id, phase |-> b.phase,
     page_id |-> b.page_id, value_type |-> b.value_type]

NoRequest ==
    [lifecycle |-> None, execution_id |-> None, phase |-> None, page_id |-> NoneStr, value_type |-> None]

\* SmartAppConverter._structure_config_value: ConfigValueType[data["valueType"]]
\* raises KeyError for an unknown name, which becomes a ValueError
_structure_config_value(b) ==
    IF b.value_type \in ConfigValueType
    THEN Return(b.value_type)
    ELSE Raise("ValueError", "Unknown config value type", b.value_type, None)

\* SmartAppConverter._structure_request: LifecyclePhase[data["lifecycle"]] raises
\* KeyError when the field is missing or is not a phase, and so does a missing
\* required field while the phase's class is structured; both become ValueError
_structure_request(b) ==
    IF b.lifecycle \notin LifecyclePhase
    THEN Raise("ValueError", "Unknown lifecycle phase", b.lifecycle, None)
    ELSE IF ~b.complete
    THEN Raise("ValueError", "Unknown lifecycle phase", b.lifecycle, None)
    ELSE IF b.lifecycle = "CONFIGURATION" /\ b.phase \notin ConfigPhase
    THEN Raise("ValueError", "not a valid ConfigPhase", b.phase, None)
    ELSE IF b.lifecycle \in PhasesWithConfig /\ IsRaise(_structure_config_value(b))
    THEN _structure_config_value(b)
    ELSE Return(MkRequest(b))

\* StandardConverter.from_json: json.loads, then structure
from_json(b) ==
    IF b.json # "object"
    THEN Raise("JSONDecodeError", "Expecting value", b.json, None)
    ELSE _structure_request(b)

(***************************************************************************)
(* smartapp/interface.py: the request context and its headers.             *)
(*                                                                         *)
(* A header value is text (possibly empty or blank), a well-formed HTTP     *)
(* date (as seconds), a digest header, or an Authorization header.  The     *)
(* headers of a context are a function from the names as sent to values.    *)
(***************************************************************************)
Text(s) == [t |-> "text", v |-> s]

DateValue(secs) == [t |-> "date", secs |-> secs]

\* str.lower() on the header names that occur
Lower(name) ==
    CASE name = "Date" -> "date"
      [] name = "DATE" -> "date"
      [] name = "Authorization" -> "authorization"
      [] name = "Digest" -> "digest"
      [] name = "Host" -> "host"
      [] name = "X-ST-Correlation" -> "x-st-correlation"
      [] OTHER -> name

\* SmartAppRequestContext._default_normalized: {key.lower(): value}
normalized(context) ==
    [k \in {Lower(n) : n \in DOMAIN context.headers} |->
        context.headers[CHOOSE n \in DOMAIN context.headers : Lower(n) = k]]

\* "not value or not value.strip()"
IsBlank(value) == value.t = "text" /\ value.v \in {"", " "}

\* SmartAppRequestContext.header: the named header case-insensitively, or None
\* when it is missing, empty or blank; found tells which
HeaderFound(context, name) ==
    /\ Lower(name) \in DOMAIN normalized(context)
    /\ ~IsBlank(normalized(context)[Lower(name)])

HeaderValue(context, name) == normalized(context)[Lower(name)]

\* SmartAppRequestContext.correlation_id
correlation_id(context) ==
    IF HeaderFound(context, CORRELATION_ID_HEADER)
    THEN HeaderValue(context, CORRELATION_ID_HEADER).v
    ELSE None

(***************************************************************************)
(* smartapp/dispatcher.py: SmartAppDispatcher.                             *)
(***************************************************************************)
\* the pieces of a URL that urllib.parse.urlsplit tells apart
MkUrl(netloc, path, query) == [scheme |-> "https", netloc |-> netloc, path |-> path, query |-> query]

\* SmartAppConfigPage number i of a definition
MkConfigPage(i) == [page_name |-> <<"page-">> \o IntToStr(i), sections |-> <<<<"section-">> \o IntToStr(i)>>]

\* SmartAppDefinition
MkDefinition(id, target_url, permissions, n) ==
    [id |-> id, name |-> "name of " \o id, description |-> "description of " \o id,
     target_url |-> target_url, permissions |-> permissions,
     config_pages |-> [i \in 1..n |-> MkConfigPage(i)]]

\* the JSON text of a response, and the empty text
to_json(response) == [json |-> "object", of |-> response]

EmptyText == [json |-> "empty"]

\* the calls that an operation makes, as they are logged
Event(ev, phase, corr, request) == [ev |-> ev, phase |-> phase, correlation_id |-> corr, request |-> request]

HandlerCall(phase, corr, request) == Event("handler", phase, corr, request)

ResponseBuilt(phase) == Event("response", phase, None, NoRequest)

\* a step of a computation: its outcome and the calls it made
Step(o, l) == [out |-> o, log |-> l]

\* list indexing config_pages[i] of Python, 0-based, negative from the end
IndexInRange(pages, i) == i < Len(pages) /\ i >= 0 - Len(pages)

\* an indexing that counts the pages from the last one
PyIndex_FromEnd(pages, i) == IF i >= 0 THEN pages[Len(pages) - i] ELSE pages[Len(pages) + i + 1]

PyIndex(pages, i) == IF i >= 0 THEN pages[i + 1] ELSE pages[Len(pages) + i + 1]

\* a confirmation that answers with a URL made from the request
_handle_confirmation_request_FromRequest(def, request) ==
    Return([type |-> "ConfirmationResponse",
            target_url |-> MkUrl(def.target_url.netloc, "/" \o request.execution_id, "")])

\* SmartAppDispatcher._handle_confirmation_request
_handle_confirmation_request(def, request) ==
    Return([type |-> "ConfirmationResponse", target_url |-> def.target_url])

\* a paging that takes the last page for complete only when a page follows it
_handle_config_request_OffByOne(def, request) ==
    IF request.phase = "INITIALIZE"
    THEN Return([type |-> "ConfigurationInitResponse", id |-> def.id, name |-> def.name,
                 description |-> def.description, permissions |-> def.permissions,
                 first_page_id |-> <<"1">>])
    ELSE IF ~IntParses(request.page_id)
    THEN Raise("ValueError", "invalid literal for int()", "page_id", None)
    ELSE LET page_id == ParseInt(request.page_id)
             n == Len(def.config_pages)
             previous_page_id == IF page_id = 1 THEN NoneStr ELSE IntToStr(page_id - 1)
             next_page_id == IF page_id > n THEN NoneStr ELSE IntToStr(page_id + 1)
             complete == page_id > n
         IN  IF ~IndexInRange(def.config_pages, page_id - 1)
             THEN Raise("IndexError", "list index out of range", "config_pages", None)
             ELSE LET pages == PyIndex(def.config_pages, page_id - 1)
                  IN  Return([type |-> "ConfigurationPageResponse", name |-> pages.page_name,
                              page_id |-> request.page_id, previous_page_id |-> previous_page_id,
                              next_page_id |-> next_page_id, complete |-> complete,
                              sections |-> pages.sections])

\* SmartAppDispatcher._handle_config_request
_handle_config_request(def, request) ==
    IF request.phase = "INITIALIZE"
    THEN Return([type |-> "ConfigurationInitResponse", id |-> def.id, name |-> def.name,
                 description |-> def.description, permissions |-> def.permissions,
                 first_page_id |-> <<"1">>])
    ELSE IF ~IntParses(request.page_id)
    THEN Raise("ValueError", "invalid literal for int()", "page_id", None)
    ELSE LET page_id == ParseInt(request.page_id)
             n == Len(def.config_pages)
             previous_page_id == IF page_id = 1 THEN NoneStr ELSE IntToStr(page_id - 1)
             next_page_id == IF page_id >= n THEN NoneStr ELSE IntToStr(page_id + 1)
             complete == page_id >= n
         IN  IF ~IndexInRange(def.config_pages, page_id - 1)
             THEN Raise("IndexError", "list index out of range", "config_pages", None)
             ELSE LET pages == PyIndex(def.config_pages, page_id - 1)
                  IN  Return([type |-> "ConfigurationPageResponse", name |-> pages.page_name,
                              page_id |-> request.page_id, previous_page_id |-> previous_page_id,
                              next_page_id |-> next_page_id, complete |-> complete,
                              sections |-> pages.sections])

\* the always-empty responses of the other phases
EmptyResponse(phase) ==
    CASE phase = "INSTALL" -> [type |-> "InstallResponse", install_data |-> <<>>]
      [] phase = "UPDATE" -> [type |-> "UpdateResponse", update_data |-> <<>>]
      [] phase = "UNINSTALL" -> [type |-> "UninstallResponse", uninstall_data |-> <<>>]
      [] phase = "OAUTH_CALLBACK" -> [type |-> "OauthCallbackResponse", o_auth_callback_data |-> <<>>]
      [] phase = "EVENT" -> [type |-> "EventResponse", event_data |-> <<>>]

\* a dispatch that sends UPDATE requests to the handler of INSTALL
HandlerFor_UpdateAsInstall(request) ==
    IF request.lifecycle = "UPDATE" THEN "INSTALL" ELSE request.lifecycle

\* the event handler method that isinstance() selects for a request
HandlerFor(request) == request.lifecycle

\* SmartAppDispatcher._handle_request; handler tells what the application's
\* event handler does when called: whether it raises, and what it returns
_handle_request(def, corr, request, handler) ==
    LET called == <<HandlerCall(HandlerFor(request), corr, request)>>
        response ==
            CASE request.lifecycle = "CONFIRMATION" -> _handle_confirmation_request(def, request)
              [] request.lifecycle = "CONFIGURATION" -> _handle_config_request(def, request)
              [] OTHER -> Return(EmptyResponse(request.lifecycle))
    IN  IF handler.raises
        THEN Step(Raise("Exception", "Hello", "handler", None), called)
        ELSE IF IsRaise(response)
        THEN Step(response, called)
        ELSE Step(response, called \o <<ResponseBuilt(request.lifecycle)>>)

\* SmartAppDispatcher.dispatch: (status, JSON payload); every exception is
\* caught, logged, and answered with (500, ""); the body of the context is
\* its request_json
dispatch(def, context, handler) ==
    LET request == from_json(context.body)
        handled == _handle_request(def, correlation_id(context), request.value, handler)
    IN  IF IsRaise(request)
        THEN Step(Return([status |-> 500, payload |-> EmptyText]), <<>>)
        ELSE IF IsRaise(handled.out)
        THEN Step(Return([status |-> 500, payload |-> EmptyText]), handled.log)
        ELSE Step(Return([status |-> 200, payload |-> to_json(handled.out.value)]), handled.log)

(***************************************************************************)
(* smartapp/signature.py: retrieve_public_key, behind lru_cache and retry. *)
(*                                                                         *)
(* The key server is the environment.  What it serves under a URL is fixed; *)
(* how a fetch goes is an input: the number of attempts in a row that fail  *)
(* with a retryable error, and how the attempt after them ends.             *)
(***************************************************************************)
LRU_MAXSIZE == 32     \* @lru_cache(maxsize=32)
STOP_AFTER_ATTEMPT == 5   \* stop=stop_after_attempt(5)

\* the exceptions retry_if_exception_type retries
RetryableErrors == {"ConnectionError", "HTTPError"}

\* subclasses of requests.RequestException
RequestExceptions == {"ConnectionError", "HTTPError", "Timeout", "RequestException"}

\* key_id.lstrip("/") for the key ids that occur
LStripSlash(key_id) == IF key_id = "/key-A" THEN "key-A" ELSE key_id

KeyUrl(key_server_url, key_id) == [base |-> key_server_url, path |-> LStripSlash(key_id)]

\* the text served at a key URL: the PEM of a public key, or something else
Pem(pub) == [parses |-> TRUE, pub |-> pub]

NotPem == [parses |-> FALSE, pub |-> None]

KeyserverText(url) ==
    CASE url.path = "key-A" -> Pem("A")
      [] url.path = "key-B" -> Pem("B")
      [] OTHER -> NotPem

NetScript(failures, failure, final) == [failures |-> failures, failure |-> failure, final |-> final]

\* a lookup that never finds anything
CacheIndex_Never(c, args) == 0

\* position of the arguments in the cache, 0 when they are not cached
CacheIndex(c, args) == IF \E i \in 1..Len(c) : c[i].args = args
                       THEN CHOOSE i \in 1..Len(c) : c[i].args = args
                       ELSE 0

RemoveAt(c, i) == SubSeq(c, 1, i - 1) \o SubSeq(c, i + 1, Len(c))

\* a cache that keeps every result
CacheInsert_Unbounded(c, args, value) == Append(c, [args |-> args, value |-> value])

\* lru_cache: a new result becomes the most recently used entry and the least
\* recently used one is dropped when the cache is full
CacheInsert(c, args, value) ==
    LET kept == IF Len(c) >= LRU_MAXSIZE THEN Tail(c) ELSE c
    IN  Append(kept, [args |-> args, value |-> value])

\* a retry that takes every failure for a retryable one
Fetch_RetryAny(key_server_url, key_id, net) ==
    IF net.failures >= STOP_AFTER_ATTEMPT \/ net.final # "ok"
    THEN [out |-> Raise("RetryError", "RetryError", key_id, None), attempts |-> STOP_AFTER_ATTEMPT]
    ELSE [out |-> Return(KeyserverText(KeyUrl(key_server_url, key_id))), attempts |-> net.failures + 1]

\* a call without the retry: the first failure is the outcome
Fetch_NoRetry(key_server_url, key_id, net) ==
    IF net.failures >= 1
    THEN [out |-> Raise(net.failure, net.failure, key_id, None), attempts |-> 1]
    ELSE IF net.final = "ok"
    THEN [out |-> Return(KeyserverText(KeyUrl(key_server_url, key_id))), attempts |-> 1]
    ELSE [out |-> Raise(net.final, net.final, key_id, None), attempts |-> 1]

\* the retry loop around one uncached call: the attempts made and the outcome
\* (tenacity raises RetryError when it stops after a failed attempt)
Fetch(key_server_url, key_id, net) ==
    IF net.failures >= STOP_AFTER_ATTEMPT
    THEN [out |-> Raise("RetryError", "RetryError", key_id, None), attempts |-> STOP_AFTER_ATTEMPT]
    ELSE IF net.final = "ok"
    THEN [out |-> Return(KeyserverText(KeyUrl(key_server_url, key_id))), attempts |-> net.failures + 1]
    ELSE [out |-> Raise(net.final, net.final, key_id, None), attempts |-> net.failures + 1]

\* retrieve_public_key(key_server_url, key_id): outcome, cache afterwards, and
\* the requests sent to the key server
retrieve_public_key(c, key_server_url, key_id, net) ==
    LET args == <<key_server_url, key_id>>
        i == CacheIndex(c, args)
        fetched == Fetch(key_server_url, key_id, net)
    IN  IF i # 0
        THEN [out |-> Return(c[i].value), cache |-> Append(RemoveAt(c, i), c[i]), calls |-> 0]
        ELSE IF IsRaise(fetched.out)
        THEN [out |-> fetched.out, cache |-> c, calls |-> fetched.attempts]
        ELSE [out |-> fetched.out, cache |-> CacheInsert(c, args, fetched.out.value),
              calls |-> fetched.attempts]

(***************************************************************************)
(* smartapp/signature.py: SignatureVerifier.                               *)
(*                                                                         *)
(* RSA and SHA-256 are ideal: a signature is the pair of the private key    *)
(* that made it and the text it was made over, and a digest determines the  *)
(* text it was taken of.                                                    *)
(***************************************************************************)
SECONDS_PER_DAY == 86400   \* pendulum: Duration.seconds is the seconds within the day

\* clock_skew_sec = None
NoSkew == -1

\* "SHA-256=" + base64(sha256(text))
Sha256Digest(text) == [t |-> "digest", of |-> text]

\* one line "name: value" of a signing string
Line(name, value) == [name |-> name, value |-> value]

\* the signature attribute: whether b64decode takes it (it raises on wrong
\* padding and drops characters that are not base64), and the signature it
\* decodes to
MkSignature(b64, signer, msg) == [b64 |-> b64, signer |-> signer, msg |-> msg]

\* an Authorization header; an attribute that is not given is None (headers:
\* not given is told by given_headers)
Authorization(scheme, keyId, given_headers, headers, algorithm, given_signature, signature) ==
    [t |-> "auth", scheme |-> scheme, keyId |-> keyId, given_headers |-> given_headers,
     headers |-> headers, algorithm |-> algorithm, given_signature |-> given_signature,
     signature |-> signature]

SigError(msg, arg, corr) == Raise("SignatureError", msg, arg, corr)

\* SignatureVerifier.header: the header, or SignatureError when it is not found
\* or empty
header(context, name) ==
    IF HeaderFound(context, name)
    THEN Return(HeaderValue(context, name))
    ELSE SigError("Header not found", name, correlation_id(context))

\* _default_path: path and query of the definition's target URL
_default_path(def) ==
    IF def.target_url.query # ""
    THEN def.target_url.path \o "?" \o def.target_url.query
    ELSE def.target_url.path

\* _default_request_target: "post <path>"
_default_request_target(def) == [t |-> "target", method |-> "post", path |-> _default_path(def)]

\* _default_date: from_format(header("date")[5:], DATE_FORMAT); a value that
\* is not a date makes from_format raise ValueError
_default_date(context) ==
    LET h == header(context, DATE_HEADER)
    IN  IF IsRaise(h) THEN h
        ELSE IF h.value.t # "date"
        THEN Raise("ValueError", "String does not match format", DATE_HEADER, None)
        ELSE Return(h.value.secs)

\* a parse that has no default for the headers attribute
_default_signing_attributes_NoDefault(context, authorization) ==
    LET corr == correlation_id(context)
    IN  IF authorization.t # "auth" \/ authorization.scheme # "Signature"
        THEN SigError("Authorization header is not a signature", "authorization", corr)
        ELSE IF authorization.keyId = None
        THEN SigError("Signature does not contain", "keyId", corr)
        ELSE IF ~authorization.given_headers
        THEN SigError("Signature does not contain", "headers", corr)
        ELSE IF authorization.algorithm = None
        THEN SigError("Signature does not contain", "algorithm", corr)
        ELSE IF ~authorization.given_signature
        THEN SigError("Signature does not contain", "signature", corr)
        ELSE Return([keyId |-> authorization.keyId,
                     headers |-> authorization.headers,
                     algorithm |-> authorization.algorithm,
                     signature |-> authorization.signature])

\* _default_signing_attributes: the four attributes, looked for in the order
\* keyId, headers, algorithm, signature
_default_signing_attributes(context, authorization) ==
    LET corr == correlation_id(context)
    IN  IF authorization.t # "auth" \/ authorization.scheme # "Signature"
        THEN SigError("Authorization header is not a signature", "authorization", corr)
        ELSE IF authorization.keyId = None
        THEN SigError("Signature does not contain", "keyId", corr)
        ELSE IF authorization.algorithm = None
        THEN SigError("Signature does not contain", "algorithm", corr)
        ELSE IF ~authorization.given_signature
        THEN SigError("Signature does not contain", "signature", corr)
        ELSE Return([keyId |-> authorization.keyId,
                     headers |-> IF authorization.given_headers THEN authorization.headers ELSE <<"Date">>,
                     algorithm |-> authorization.algorithm,
                     signature |-> authorization.signature])

\* an algorithm check that lets every algorithm through
_default_algorithm_Any(context, signing_attributes) == Return(signing_attributes.algorithm)

\* _default_algorithm
_default_algorithm(context, signing_attributes) ==
    IF signing_attributes.algorithm # "rsa-sha256"
    THEN SigError("Algorithm not supported", signing_attributes.algorithm, correlation_id(context))
    ELSE Return(signing_attributes.algorithm)

\* a component that keeps the name as it is listed
Component_AsListed(context, def, name) ==
    IF name = "(request-target)"
    THEN Return(Line("(request-target)", _default_request_target(def)))
    ELSE IF IsRaise(header(context, name))
    THEN header(context, name)
    ELSE Return(Line(name, header(context, name).value))

\* one component of the signing string
Component(context, def, name) ==
    IF name = "(request-target)"
    THEN Return(Line("(request-target)", _default_request_target(def)))
    ELSE IF IsRaise(header(context, name))
    THEN header(context, name)
    ELSE Return(Line(Lower(name), header(context, name).value))

\* _signing_string: the components in the order of the headers attribute; the
\* first header that is not found raises
_signing_string(context, def, signing_headers) ==
    IF \E i \in 1..Len(signing_headers) : IsRaise(Component(context, def, signing_headers[i]))
    THEN Component(context, def,
             signing_headers[CHOOSE i \in 1..Len(signing_headers) :
                 /\ IsRaise(Component(context, def, signing_headers[i]))
                 /\ \A j \in 1..(i - 1) : ~IsRaise(Component(context, def, signing_headers[j]))])
    ELSE Return([i \in 1..Len(signing_headers) |-> Component(context, def, signing_headers[i]).value])

\* SignatureVerifier(context, config, definition): attrs computes the derived
\* attributes in the order they are declared; the first one that raises ends
\* the construction
SignatureVerifier(context, cfg, def) ==
    LET date == _default_date(context)
        authorization == header(context, AUTHORIZATION_HEADER)
        signing_attributes == _default_signing_attributes(context, authorization.value)
        algorithm == _default_algorithm(context, signing_attributes.value)
        signing_string == _signing_string(context, def, signing_attributes.value.headers)
    IN  IF IsRaise(date) THEN date
        ELSE IF IsRaise(authorization) THEN authorization
        ELSE IF IsRaise(signing_attributes) THEN signing_attributes
        ELSE IF IsRaise(algorithm) THEN algorithm
        ELSE IF IsRaise(signing_string) THEN signing_string
        ELSE Return([correlation_id |-> correlation_id(context),
                     body |-> context.body,
                     method |-> "POST",
                     path |-> _default_path(def),
                     request_target |-> _default_request_target(def),
                     date |-> date.value,
                     signing_attributes |-> signing_attributes.value,
                     signing_headers |-> signing_attributes.value.headers,
                     key_id |-> signing_attributes.value.keyId,
                     keyserver_url |-> cfg.keyserver_url,
                     algorithm |-> algorithm.value,
                     signature |-> signing_attributes.value.signature,
                     signing_string |-> signing_string.value])

\* the attributes declared with repr=False
VerifierHidden == {"context"}

\* repr(verifier) and str(verifier): attrs shows every attribute that is
\* not declared with repr=False, with its value
VerifierRepr(v) == [cls |-> "SignatureVerifier", shown |-> [n \in DOMAIN v \ VerifierHidden |-> v[n]]]

Abs(n) == IF n < 0 THEN 0 - n ELSE n

\* abs(now() - date).seconds: times are in half seconds (now() has a
\* sub-second part, a Date header has none); the duration is cut to whole
\* seconds and .seconds is what remains of it within the day
SkewSeconds(now2, date) == (Abs(now2 - 2 * date) \div 2) % SECONDS_PER_DAY

\* SignatureVerifier.verify_date
verify_date(v, cfg, now2) ==
    IF cfg.clock_skew_sec # NoSkew /\ SkewSeconds(now2, v.date) > cfg.clock_skew_sec
    THEN Raise("SignatureError", "Request date is not current", "date", v.correlation_id)
    ELSE Return(None)

\* SignatureVerifier.retrieve_public_key: a RequestException becomes a
\* SignatureError, anything else passes through
verifier_retrieve_public_key(v, c, net) ==
    LET r == retrieve_public_key(c, v.keyserver_url, v.key_id, net)
    IN  IF IsRaise(r.out) /\ r.out.exc \in RequestExceptions
        THEN [r EXCEPT !.out = SigError("Failed to retrieve key", v.key_id, v.correlation_id)]
        ELSE r

\* a verification that checks the key but not the text that was signed
PkcsVerifies_AnyText(pub, text, signature) == signature.signer = pub

\* pkcs1_15.new(key).verify(sha256, signature) does not raise
PkcsVerifies(pub, text, signature) == signature.signer = pub /\ signature.msg = text

\* SignatureVerifier.verify_signature: b64decode, hash, key retrieval, import,
\* verification; a ValueError or TypeError on the way is "Signature is not valid"
verify_signature(v, c, net) ==
    LET invalid == SigError("Signature is not valid", "signature", v.correlation_id)
        key == verifier_retrieve_public_key(v, c, net)
    IN  IF ~v.signature.b64
        THEN [out |-> invalid, cache |-> c, calls |-> 0]
        ELSE IF IsRaise(key.out)
        THEN key
        ELSE IF ~key.out.value.parses
        THEN [key EXCEPT !.out = invalid]
        ELSE IF ~PkcsVerifies(key.out.value.pub, v.signing_string, v.signature)
        THEN [key EXCEPT !.out = invalid]
        ELSE [key EXCEPT !.out = Return(None)]

\* SignatureVerifier.verify: the date, then the signature
verify(v, cfg, c, now2, net) ==
    IF IsRaise(verify_date(v, cfg, now2))
    THEN [out |-> verify_date(v, cfg, now2), cache |-> c, calls |-> 0]
    ELSE verify_signature(v, c, net)

\* construction followed by verify(), as a caller that checks a request does
construct_and_verify(context, cfg, def, c, now2, net) ==
    LET v == SignatureVerifier(context, cfg, def)
    IN  IF IsRaise(v)
        THEN [out |-> v, cache |-> c, calls |-> 0]
        ELSE verify(v.value, cfg, c, now2, net)

(***************************************************************************)
(* The inputs: configurations, definitions, requests, clocks, key fetches. *)
(***************************************************************************)
CLOCK_SKEW_SEC == 300   \* SmartAppDispatcherConfig.clock_skew_sec default
KEYSERVER_URL == "https://key.smartthings.com"

MkConfig(check_signatures, clock_skew_sec) ==
    [check_signatures |-> check_signatures, clock_skew_sec |-> clock_skew_sec,
     keyserver_url |-> KEYSERVER_URL]

Configs == {MkConfig(TRUE, CLOCK_SKEW_SEC), MkConfig(FALSE, CLOCK_SKEW_SEC), MkConfig(TRUE, NoSkew)}

UrlA == MkUrl("example.com", "/smartapp", "")
UrlB == MkUrl("example.com", "/foo", "param=value&pet=dog")

Definitions ==
    {MkDefinition("id-a", UrlA, <<"r:devices:*">>, n) : n \in 0..MaxPages}
        \cup {MkDefinition("id-b", UrlB, <<>>, 1)}

\* the configurations and definitions that signatures are verified with
SignatureConfigs == {MkConfig(TRUE, CLOCK_SKEW_SEC), MkConfig(TRUE, NoSkew)}

SignatureDefinitions == {MkDefinition("id-a", UrlA, <<>>, 0), MkDefinition("id-b", UrlB, <<>>, 0)}

Paths == {_default_path(d) : d \in SignatureDefinitions}

\* page ids as they may arrive
PageIds ==
    {IntToStr(i) : i \in -1..(MaxPages + 1)} \cup {<<>>, <<"a">>, <<"0", "1">>, <<" ", "2">>, <<"+", "1">>}

ExecutionIds == {"exec-1", "exec-2"}

Bodies ==
    {MkBody("invalid", None, FALSE, None, <<>>, None, None)}
        \cup {MkBody("object", lc, FALSE, None, <<>>, None, None) : lc \in {None, "BOGUS"} \cup LifecyclePhase}
        \cup {MkBody("object", "BOGUS", TRUE, None, <<>>, "STRING", "exec-1")}
        \cup {MkBody("object", lc, TRUE, None, <<>>, vt, e) :
                 lc \in LifecyclePhase \ {"CONFIGURATION"}, vt \in {"DEVICE", "BOGUS"}, e \in ExecutionIds}
        \cup {MkBody("object", "CONFIGURATION", TRUE, ph, <<>>, vt, "exec-1") :
                 ph \in {"INITIALIZE", "BOGUS"}, vt \in {"STRING", "BOGUS"}}
        \cup {MkBody("object", "CONFIGURATION", TRUE, "INITIALIZE", <<"2">>, "STRING", "exec-2")}
        \cup {MkBody("object", "CONFIGURATION", TRUE, "PAGE", p, "STRING", "exec-1") : p \in PageIds}

Body1 == MkBody("object", "INSTALL", TRUE, None, <<>>, "DEVICE", "exec-1")
Body2 == MkBody("object", "INSTALL", TRUE, None, <<>>, "DEVICE", "exec-2")

\* what the application's event handler may do
Handlers == {[raises |-> TRUE, returns |-> None], [raises |-> FALSE, returns |-> None],
             [raises |-> FALSE, returns |-> "value"]}

Absent == [t |-> "absent"]

\* the headers of a request, under the names they are sent with
MkHeaders(corr, date, authorization, digest) ==
    LET sent == [n \in {"X-ST-Correlation", "Date", "Authorization", "Digest", "Host"} |->
                    CASE n = "X-ST-Correlation" -> corr
                      [] n = "Date" -> date
                      [] n = "Authorization" -> authorization
                      [] n = "Digest" -> digest
                      [] n = "Host" -> Text("example.com")]
    IN  [n \in {m \in DOMAIN sent : sent[m].t # "absent"} |-> sent[n]]

MkContext(headers, body) == [headers |-> headers, body |-> body]

\* the signing string as the sender of a request makes it from its own view
\* of the request
SenderLine(name, sdate, sbody, spath) ==
    CASE name = "(request-target)" -> Line(name, [t |-> "target", method |-> "post", path |-> spath])
      [] Lower(name) = "date" -> Line("date", DateValue(sdate))
      [] Lower(name) = "digest" -> Line("digest", Sha256Digest(sbody))
      [] OTHER -> Line(Lower(name), Text("example.com"))

SenderString(names, sdate, sbody, spath) ==
    [i \in 1..Len(names) |-> SenderLine(names[i], sdate, sbody, spath)]

AllHeaders == <<"(request-target)", "host", "date", "digest">>

Date1 == 1000000         \* the date of the requests, in seconds
Date2 == Date1 + 60

\* a signed request: what was signed, by whom, and what arrives
SignedContext(corr, date, body, digest, keyId, given_headers, names, algorithm, b64, signer, sdate, sbody, spath) ==
    MkContext(
        MkHeaders(corr, date,
            Authorization("Signature", keyId, given_headers, names, algorithm, TRUE,
                MkSignature(b64, signer,
                    SenderString(IF given_headers THEN names ELSE <<"Date">>, sdate, sbody, spath))),
            digest),
        body)

Corr == Text("AAAA")

\* requests that differ in what was signed, who signed, and what was changed
\* on the way
CryptoContexts ==
    {SignedContext(Corr, DateValue(date), body, Sha256Digest(dbody), keyId, given, AllHeaders,
                   "rsa-sha256", TRUE, signer, Date1, Body1, spath) :
        date \in {Date1, Date2}, body \in {Body1, Body2}, dbody \in {Body1, Body2},
        keyId \in {"key-A", "key-bad"}, given \in BOOLEAN, signer \in {"A", "B"}, spath \in Paths}
        \cup {SignedContext(Corr, DateValue(Date1), Body1, Sha256Digest(Body1), keyId, TRUE, AllHeaders,
                   "rsa-sha256", FALSE, "A", Date1, Body1, spath) :
                 keyId \in {"key-A", "key-bad"}, spath \in Paths}

\* a well-signed request but for one or two defects
Signed1(corr, date, digest, keyId, names, algorithm) ==
    SignedContext(corr, date, Body1, digest, keyId, TRUE, names, algorithm, TRUE, "A", Date1, Body1,
                  _default_path(MkDefinition("id-a", UrlA, <<>>, 0)))

WithAuthorization(authorization) ==
    MkContext(MkHeaders(Corr, DateValue(Date1), authorization, Sha256Digest(Body1)), Body1)

GoodSignature == MkSignature(TRUE, "A", SenderString(<<"Date">>, Date1, Body1, "/smartapp"))

MalformedContexts ==
    {Signed1(Corr, date, Sha256Digest(Body1), "key-A", AllHeaders, alg) :
        date \in {Absent, Text(""), Text("garbage")}, alg \in {"rsa-sha256", "hmac-sha256"}}
        \cup {Signed1(corr, DateValue(Date1), Sha256Digest(Body1), "key-A", AllHeaders, alg) :
                 corr \in {Corr, Absent}, alg \in {"hmac-sha256", "RSA-SHA256", None}}
        \cup {Signed1(Corr, DateValue(Date1), Sha256Digest(Body1), None, AllHeaders, alg) :
                 alg \in {"rsa-sha256", "hmac-sha256"}}
        \cup {Signed1(Corr, DateValue(Date1), digest, "key-A", names, "rsa-sha256") :
                 digest \in {Absent, Text(" ")},
                 names \in {AllHeaders, <<"date", "x-missing">>, <<"date", "", "digest">>}}
        \cup {WithAuthorization(a) :
                 a \in {Absent, Text("bogus"),
                        Authorization("Basic", "key-A", FALSE, <<>>, "rsa-sha256", TRUE, GoodSignature),
                        Authorization("Signature", "key-A", FALSE, <<>>, "rsa-sha256", FALSE, GoodSignature),
                        Authorization("Signature", "key-A", FALSE, <<>>, "hmac-sha256", FALSE, GoodSignature)}}

VerifyContexts == CryptoContexts \cup MalformedContexts

\* one request body of each kind, for the requests that are signed
SignedBodies ==
    {MkBody("invalid", None, FALSE, None, <<>>, None, None),
     MkBody("object", "CONFIGURATION", TRUE, "INITIALIZE", <<>>, "STRING", "exec-1"),
     MkBody("object", "CONFIGURATION", TRUE, "PAGE", <<"1">>, "STRING", "exec-1")}
        \cup {MkBody("object", lc, TRUE, None, <<>>, "DEVICE", "exec-1") :
                 lc \in LifecyclePhase \ {"CONFIGURATION"}}

\* the requests given to the dispatcher: not signed, signed, signed with
\* another key
DispatchContexts ==
    {MkContext(MkHeaders(corr, Absent, Absent, Absent), body) : corr \in {Corr, Absent}, body \in Bodies}
        \cup {SignedContext(Corr, DateValue(Date1), body, Absent, "key-A", FALSE, <<>>, "rsa-sha256", TRUE,
                             signer, Date1, body, "/smartapp") :
                 body \in SignedBodies, signer \in {"A", "B"}}

VerifyNets == {NetScript(0, "HTTPError", "ok"), NetScript(0, "HTTPError", "Timeout"),
               NetScript(STOP_AFTER_ATTEMPT, "ConnectionError", "ok")}

\* now(), in half seconds
VerifyNows == {2 * Date1, 2 * (Date1 + CLOCK_SKEW_SEC + 1), 2 * (Date1 + SECONDS_PER_DAY)}

\* the clock and the key server at the time of a verification
VerifyEnvironments ==
    {[now2 |-> 2 * Date1, net |-> net] : net \in VerifyNets}
        \cup {[now2 |-> now2, net |-> NetScript(0, "HTTPError", "ok")] : now2 \in VerifyNows}

SkewOffsets ==
    {0, 1, 2 * CLOCK_SKEW_SEC - 2, 2 * CLOCK_SKEW_SEC, 2 * CLOCK_SKEW_SEC + 1, 2 * CLOCK_SKEW_SEC + 2,
     2 * CLOCK_SKEW_SEC + 4, 2 * SECONDS_PER_DAY - 2, 2 * SECONDS_PER_DAY, 2 * (SECONDS_PER_DAY + CLOCK_SKEW_SEC),
     2 * (SECONDS_PER_DAY + CLOCK_SKEW_SEC + 1), 4 * SECONDS_PER_DAY}

DateNows == {2 * Date1 + d : d \in SkewOffsets} \cup {2 * Date1 - d : d \in SkewOffsets}

NetScripts ==
    {NetScript(k, f, fin) : k \in 0..MaxRetryFail, f \in RetryableErrors, fin \in {"ok", "Timeout"}}

KeyIds == {"key-A", "key-bad"}

\* the threads of the process
Threads == 1..MaxThreads

\* a thread that is not in a call
NoCall == [pc |-> "idle", key_id |-> None, attempts |-> 0, out |-> Return(None)]

(***************************************************************************)
(* The state machine.                                                      *)
(***************************************************************************)
\* nothing has run yet
Fresh ==
    /\ cache = <<>>
    /\ op = "idle"
    /\ inp = [none |-> TRUE]
    /\ out = Return(None)
    /\ log = <<>>
    /\ netcalls = 0
    /\ threads = [t \in Threads |-> NoCall]

\* a dispatcher with its configuration, definition and event handler
Init ==
    /\ config \in Configs
    /\ definition \in Definitions
    /\ Fresh

\* a process that verifies signatures
InitSignature ==
    /\ config \in SignatureConfigs
    /\ definition \in SignatureDefinitions
    /\ Fresh

\* no operation is under way: the process is single-threaded and its caller
\* takes the outcome of an operation before it starts the next
Idle == op = "idle"

\* SmartAppDispatcher.dispatch(context), with the clock and the key server as
\* they are at the time of the call
Dispatch ==
    \E context \in DispatchContexts, handler \in Handlers :
        LET r == dispatch(definition, context, handler)
        IN  /\ Idle
            /\ op' = "dispatch"
            /\ inp' = [context |-> context, handler |-> handler, now2 |-> 2 * Date1,
                       net |-> NetScript(0, "HTTPError", "ok")]
            /\ out' = r.out
            /\ log' = r.log
            /\ netcalls' = 0
            /\ UNCHANGED <<config, definition, cache, threads>>

\* SignatureVerifier(context, config, definition).verify()
Verify ==
    \E context \in VerifyContexts, env \in VerifyEnvironments :
        LET r == construct_and_verify(context, config, definition, cache, env.now2, env.net)
        IN  /\ Idle
            /\ op' = "verify"
            /\ inp' = [context |-> context, now2 |-> env.now2, net |-> env.net]
            /\ out' = r.out
            /\ log' = <<>>
            /\ netcalls' = r.calls
            /\ cache' = r.cache
            /\ UNCHANGED <<config, definition, threads>>

\* SignatureVerifier(context, config, definition).verify_date()
VerifyDate ==
    \E now2 \in DateNows, corr \in {Corr, Absent} :
        LET context == Signed1(corr, DateValue(Date1), Sha256Digest(Body1), "key-A", AllHeaders, "rsa-sha256")
            v == SignatureVerifier(context, config, definition)
        IN  /\ Idle
            /\ op' = "verify_date"
            /\ inp' = [context |-> context, now2 |-> now2]
            /\ out' = verify_date(v.value, config, now2)
            /\ log' = <<>>
            /\ netcalls' = 0
            /\ UNCHANGED <<config, definition, cache, threads>>

\* repr(SignatureVerifier(context, config, definition))
ReprVerifier ==
    \E context \in VerifyContexts :
        LET v == SignatureVerifier(context, config, definition)
        IN  /\ Idle
            /\ ~IsRaise(v)
            /\ op' = "repr_verifier"
            /\ inp' = [context |-> context]
            /\ out' = Return(VerifierRepr(v.value))
            /\ log' = <<>>
            /\ netcalls' = 0
            /\ UNCHANGED <<config, definition, cache, threads>>

\* retrieve_public_key(key_server_url, key_id)
RetrievePublicKey ==
    \E key_id \in KeyIds, net \in NetScripts :
        LET r == retrieve_public_key(cache, config.keyserver_url, key_id, net)
        IN  /\ Idle
            /\ op' = "retrieve_public_key"
            /\ inp' = [key_id |-> key_id, net |-> net]
            /\ out' = r.out
            /\ log' = <<>>
            /\ netcalls' = r.calls
            /\ cache' = r.cache
            /\ UNCHANGED <<config, definition, threads>>

\* the caller takes the outcome
Finish ==
    /\ ~Idle
    /\ op' = "idle"
    /\ inp' = [none |-> TRUE]
    /\ out' = Return(None)
    /\ log' = <<>>
    /\ netcalls' = 0
    /\ UNCHANGED <<config, definition, cache, threads>>

\* the dispatcher at work
Next == Dispatch \/ Finish

Spec == Init /\ [][Next]_vars

\* the signature verifier and the key cache at work
NextSignature == Verify \/ VerifyDate \/ RetrievePublicKey \/ ReprVerifier \/ Finish

SpecSignature == InitSignature /\ [][NextSignature]_vars

(***************************************************************************)
(* smartapp/converter.py: datetimes.                                       *)
(*                                                                         *)
(* A DateTime is an instant in microseconds since the UNIX epoch with a    *)
(* time zone; two DateTimes are equal when they are the same instant.  A   *)
(* datetime string is told by its form and by the instant, in              *)
(* milliseconds, that its digits give.                                     *)
(***************************************************************************)
DATETIME_MS_LEN == 24    \* len("YYYY-MM-DDTHH:MM:SS.SSSZ")
DATETIME_SEC_LEN == 20   \* len("YYYY-MM-DDTHH:MM:SSZ")

DATETIME_ZONE == "UTC"

MkDateTime(us, tz) == [us |-> us, tz |-> tz]

MkDateString(form, ms) == [form |-> form, ms |-> ms]

DATETIME_MS_EPOCH == MkDateString("ms", 0)     \* "1970-01-01T00:00:00.000Z"
DATETIME_SEC_EPOCH == MkDateString("sec", 0)   \* "1970-01-01T00:00:00Z"

\* len(datetime) for the forms of string that occur
StrLen(s) ==
    CASE s.form = "ms" -> DATETIME_MS_LEN          \* 2017-09-13T04:18:12.469Z
      [] s.form = "ms-space" -> DATETIME_MS_LEN    \* 2017-09-13 04:18:12.469Z
      [] s.form = "sec" -> DATETIME_SEC_LEN        \* 2017-09-13T04:18:12Z
      [] s.form = "sec-space" -> DATETIME_SEC_LEN  \* 2017-09-13 04:18:12Z
      [] s.form = "ms-noZ" -> DATETIME_MS_LEN - 1  \* 2017-09-13T04:18:12.469
      [] s.form = "sec-noZ" -> DATETIME_SEC_LEN - 1
      [] s.form = "offset" -> DATETIME_SEC_LEN + 5 \* 2017-09-13T04:18:12+00:00
      [] s.form = "empty" -> 0

\* pendulum's from_format(datetime, fmt, tz="UTC"): the instant, or ValueError
\* when the string does not match the format
from_format(s, fmt) ==
    IF s.form = fmt
    THEN Return(MkDateTime(s.ms * 1000, DATETIME_ZONE))
    ELSE Raise("ValueError", "String does not match format", s.form, None)

\* a serialization that keeps whole seconds only
serialize_datetime_Seconds(datetime) == MkDateString("ms", (datetime.us \div 1000000) * 1000)

\* serialize_datetime: in UTC, "YYYY-MM-DD[T]HH:mm:ss.SSS[Z]"; SSS is the
\* first three digits of the microseconds
serialize_datetime(datetime) == MkDateString("ms", datetime.us \div 1000)

\* a parser that takes the epoch for a date like any other
deserialize_datetime_NoSentinel(datetime, now) ==
    IF StrLen(datetime) = DATETIME_MS_LEN THEN from_format(datetime, "ms")
    ELSE IF StrLen(datetime) = DATETIME_SEC_LEN THEN from_format(datetime, "sec")
    ELSE Raise("ValueError", "Unknown datetime format", datetime.form, None)

\* deserialize_datetime; now is what now() returns
deserialize_datetime(datetime, now) ==
    IF datetime \in {DATETIME_MS_EPOCH, DATETIME_SEC_EPOCH} THEN Return(now)
    ELSE IF StrLen(datetime) = DATETIME_MS_LEN THEN from_format(datetime, "ms")
    ELSE IF StrLen(datetime) = DATETIME_SEC_LEN THEN from_format(datetime, "sec")
    ELSE Raise("ValueError", "Unknown datetime format", datetime.form, None)

(***************************************************************************)
(* smartapp/converter.py and smartapp/interface.py: lifecycle objects and  *)
(* their conversion.                                                       *)
(*                                                                         *)
(* An object is told by its class and by the attributes that conversions   *)
(* treat differently: the phase, the execution id, the secret tokens, the  *)
(* time of its event and a value of type Any (settings, event payloads).   *)
(* An attribute that the class does not have is None (tokens) or empty     *)
(* (event_time, also when it is None).                                     *)
(***************************************************************************)
RequestClasses ==
    {"ConfirmationRequest", "ConfigurationRequest", "InstallRequest", "UpdateRequest",
     "UninstallRequest", "OauthCallbackRequest", "EventRequest"}

ResponseClasses ==
    {"ConfirmationResponse", "ConfigurationInitResponse", "ConfigurationPageResponse", "InstallResponse",
     "UpdateResponse", "UninstallResponse", "OauthCallbackResponse", "EventResponse"}

\* REQUEST_BY_PHASE
RequestByPhase(phase) ==
    CASE phase = "CONFIRMATION" -> "ConfirmationRequest"
      [] phase = "CONFIGURATION" -> "ConfigurationRequest"
      [] phase = "INSTALL" -> "InstallRequest"
      [] phase = "UPDATE" -> "UpdateRequest"
      [] phase = "UNINSTALL" -> "UninstallRequest"
      [] phase = "OAUTH_CALLBACK" -> "OauthCallbackRequest"
      [] phase = "EVENT" -> "EventRequest"

MkObject(cls, lifecycle, execution_id, auth_token, refresh_token, event_time, settings) ==
    [cls |-> cls, lifecycle |-> lifecycle, execution_id |-> execution_id, auth_token |-> auth_token,
     refresh_token |-> refresh_token, event_time |-> event_time, settings |-> settings]

\* the attributes of an object
Attributes == {"lifecycle", "execution_id", "auth_token", "refresh_token", "event_time", "settings"}

\* StandardConverter._to_camel_case on the attribute names
_to_camel_case(name) ==
    CASE name = "execution_id" -> "executionId"
      [] name = "auth_token" -> "authToken"
      [] name = "refresh_token" -> "refreshToken"
      [] name = "event_time" -> "eventTime"
      [] OTHER -> name

\* a value of type Any: a string, a list or a tuple
MkAny(kind, items) == [kind |-> kind, items |-> items]

\* json.dumps and yaml.safe_dump write a tuple as a list
DumpAny(v) == IF v.kind = "tuple" THEN MkAny("list", v.items) ELSE v

\* unstructure: the wire form of an object, with camelCase names and
\* datetimes as strings
unstructure(x) ==
    [k \in {_to_camel_case(n) : n \in Attributes} |->
        LET n == CHOOSE a \in Attributes : _to_camel_case(a) = k
        IN  IF n = "event_time"
            THEN [i \in 1..Len(x.event_time) |-> serialize_datetime(x.event_time[i])]
            ELSE x[n]]

\* StandardConverter.to_json: json.dumps(self.unstructure(obj))
StandardConverter_to_json(obj) ==
    [fmt |-> "json", data |-> [unstructure(obj) EXCEPT !.settings = DumpAny(@)]]

\* StandardConverter.to_yaml: yaml.safe_dump(self.unstructure(obj))
to_yaml(obj) ==
    [fmt |-> "yaml", data |-> [unstructure(obj) EXCEPT !.settings = DumpAny(@)]]

\* structure(data, cls): the object of the class (for LifecycleRequest, the
\* class of the phase), or the error of a datetime that does not parse
structure(data, cls, now) ==
    LET times == [i \in 1..Len(data.eventTime) |-> deserialize_datetime(data.eventTime[i], now)]
    IN  IF \E i \in 1..Len(times) : IsRaise(times[i])
        THEN times[CHOOSE i \in 1..Len(times) : IsRaise(times[i])]
        ELSE Return(MkObject(IF cls = "LifecycleRequest" THEN RequestByPhase(data.lifecycle) ELSE cls,
                             data.lifecycle, data.executionId, data.authToken, data.refreshToken,
                             [i \in 1..Len(times) |-> times[i].value], data.settings))

\* StandardConverter.from_json: self.structure(json.loads(data), cls)
StandardConverter_from_json(text, cls, now) == structure(text.data, cls, now)

\* StandardConverter.from_yaml: self.structure(yaml.safe_load(data), cls)
from_yaml(text, cls, now) == structure(text.data, cls, now)

\* the attributes told apart from field(repr=False)
SecretAttributes == {"auth_token", "refresh_token"}

\* a string form that shows every attribute
ReprAttributes_All(cls) == Attributes

\* the attributes that the string form of an object shows
ReprAttributes(cls) == Attributes \ SecretAttributes

\* repr(x), str(x) and "%s" % x: the class and the attributes shown
Repr(x) == [cls |-> x.cls, shown |-> [n \in ReprAttributes(x.cls) |-> x[n]]]

\* equality of objects: of their classes, and attribute for attribute
ObjectsEqual(x, y) ==
    /\ x.cls = y.cls
    /\ \A n \in Attributes \ {"event_time"} : x[n] = y[n]
    /\ Len(x.event_time) = Len(y.event_time)
    /\ \A i \in 1..Len(x.event_time) : x.event_time[i].us = y.event_time[i].us

(***************************************************************************)
(* The converter at work.                                                  *)
(***************************************************************************)
\* instants: the epoch, within its first millisecond, and later ones that
\* are whole seconds, whole milliseconds, and neither
Instants == {0, 500, 5000000, 5469000, 5469123}

DateTimes == {MkDateTime(us, tz) : us \in Instants, tz \in {"UTC", "America/Chicago"}}

\* what now() may return
Nows == {MkDateTime(9000123, "America/Chicago")}

DateStrings ==
    {MkDateString("ms", ms) : ms \in {0, 1, 5000, 5469}}
        \cup {MkDateString("sec", ms) : ms \in {0, 5000}}
        \cup {MkDateString(form, 5000) :
                 form \in {"ms-space", "sec-space", "ms-noZ", "sec-noZ", "offset", "empty"}}

AnyValues == {MkAny("str", <<"a">>), MkAny("list", <<"a", "b">>), MkAny("tuple", <<"a", "b">>)}

PhasesWithAuthToken == {"INSTALL", "UPDATE", "EVENT"}

PhasesWithRefreshToken == {"INSTALL", "UPDATE"}

Requests ==
    {MkObject(RequestByPhase(phase), phase, "exec-1",
              IF phase \in PhasesWithAuthToken THEN auth_token ELSE None,
              IF phase \in PhasesWithRefreshToken THEN refresh_token ELSE None,
              IF phase = "EVENT" THEN event_time ELSE <<>>,
              settings) :
        phase \in LifecyclePhase, auth_token \in {"authTokenValue", "authTokenValue2"},
        refresh_token \in {"refreshTokenValue"},
        event_time \in {<<>>} \cup {<<d>> : d \in DateTimes}, settings \in AnyValues}

Responses == {MkObject(cls, None, None, None, None, <<>>, data) : cls \in ResponseClasses, data \in AnyValues}

Objects == Requests \cup Responses

\* the class that a caller names when it parses the text of an object
ParseClass(x) == IF x.cls \in RequestClasses THEN "LifecycleRequest" ELSE x.cls

\* a process that converts
InitConverter ==
    /\ config = MkConfig(TRUE, CLOCK_SKEW_SEC)
    /\ definition = MkDefinition("id-a", UrlA, <<>>, 0)
    /\ Fresh

\* CONVERTER.from_json(CONVERTER.to_json(x), cls)
JsonRoundTrip ==
    \E x \in Objects, now \in Nows :
        /\ Idle
        /\ op' = "json_roundtrip"
        /\ inp' = [x |-> x, now |-> now]
        /\ out' = StandardConverter_from_json(StandardConverter_to_json(x), ParseClass(x), now)
        /\ log' = <<>>
        /\ netcalls' = 0
        /\ UNCHANGED <<config, definition, cache, threads>>

\* CONVERTER.from_yaml(CONVERTER.to_yaml(x), cls)
YamlRoundTrip ==
    \E x \in Objects, now \in Nows :
        /\ Idle
        /\ op' = "yaml_roundtrip"
        /\ inp' = [x |-> x, now |-> now]
        /\ out' = from_yaml(to_yaml(x), ParseClass(x), now)
        /\ log' = <<>>
        /\ netcalls' = 0
        /\ UNCHANGED <<config, definition, cache, threads>>

\* str(x), as the dispatcher logs a request
ReprObject ==
    \E x \in Objects :
        /\ Idle
        /\ op' = "repr"
        /\ inp' = [x |-> x]
        /\ out' = Return(Repr(x))
        /\ log' = <<>>
        /\ netcalls' = 0
        /\ UNCHANGED <<config, definition, cache, threads>>

\* serialize_datetime(datetime)
SerializeDatetime ==
    \E datetime \in DateTimes :
        /\ Idle
        /\ op' = "serialize_datetime"
        /\ inp' = [datetime |-> datetime]
        /\ out' = Return(serialize_datetime(datetime))
        /\ log' = <<>>
        /\ netcalls' = 0
        /\ UNCHANGED <<config, definition, cache, threads>>

\* deserialize_datetime(datetime)
DeserializeDatetime ==
    \E datetime \in DateStrings, now \in Nows :
        /\ Idle
        /\ op' = "deserialize_datetime"
        /\ inp' = [datetime |-> datetime, now |-> now]
        /\ out' = deserialize_datetime(datetime, now)
        /\ log' = <<>>
        /\ netcalls' = 0
        /\ UNCHANGED <<config, definition, cache, threads>>

NextConverter == JsonRoundTrip \/ YamlRoundTrip \/ ReprObject \/ SerializeDatetime \/ DeserializeDatetime \/ Finish

SpecConverter == InitConverter /\ [][NextConverter]_vars

(***************************************************************************)
(* sensortrack/server.py: the RESTful API.                                 *)
(*                                                                         *)
(* The route hands the request to the dispatcher; what the dispatcher      *)
(* returns is the content of the response, and what it raises goes to the  *)
(* exception handler that FastAPI finds for the class of the exception.    *)
(***************************************************************************)
\* Response(status_code, content, media_type)
Response(status_code, content, media_type) ==
    [status_code |-> status_code, content |-> content, media_type |-> media_type]

\* the classes of an exception, nearest first: its method resolution order
Mro(exc) ==
    CASE exc = "SmartAppError" -> <<"SmartAppError", "Exception">>
      [] exc \in SmartAppErrors -> <<exc, "SmartAppError", "Exception">>
      [] exc = "Exception" -> <<"Exception">>
      [] OTHER -> <<exc, "Exception">>

\* the status codes of the handlers that @API.exception_handler registers
ExceptionHandlers_NoSignature ==
    [BadRequestError |-> 400, SmartAppError |-> 500,
     RestClientError |-> 500, InfluxDBError |-> 500, Exception |-> 500]

ExceptionHandlers ==
    [BadRequestError |-> 400, SignatureError |-> 401, SmartAppError |-> 500,
     RestClientError |-> 500, InfluxDBError |-> 500, Exception |-> 500]

\* the handler that serves an exception: the one of the nearest class that
\* has a handler
RECURSIVE LookupHandler(_)
LookupHandler(mro) ==
    IF Head(mro) \in DOMAIN ExceptionHandlers THEN ExceptionHandlers[Head(mro)] ELSE LookupHandler(Tail(mro))

\* _generic_error_handler(e, status_code, message): the exception is logged
\* and the response has the status code and no content
_generic_error_handler(e, status_code) == Response(status_code, EmptyText, None)

\* smartapp(request), dispatched being the outcome of
\* dispatcher().dispatch(context=context)
smartapp(dispatched) ==
    IF IsRaise(dispatched)
    THEN _generic_error_handler(dispatched, LookupHandler(Mro(dispatched.exc)))
    ELSE Response(200, dispatched.value, "application/json")

(***************************************************************************)
(* The server at work.                                                     *)
(***************************************************************************)
\* exceptions that reach the server
ServerExceptions ==
    SmartAppErrors \cup {"RestClientError", "InfluxDBError", "RetryError", "TypeError", "ValueError", "Exception"}

\* what dispatching a request comes to: the JSON of a response, or an
\* exception
DispatchOutcomes ==
    {Return(StandardConverter_to_json(r)) : r \in Responses}
        \cup {Raise(exc, "hello", "dispatch", corr) : exc \in ServerExceptions, corr \in {Corr, Absent}}

ServerContexts == {MkContext(MkHeaders(corr, Absent, Absent, Absent), body) : corr \in {Corr, Absent}, body \in Bodies}

\* a process that serves the API
InitServer ==
    /\ config \in Configs
    /\ definition \in Definitions
    /\ Fresh

\* POST /smartapp
Smartapp ==
    \E context \in ServerContexts, dispatched \in DispatchOutcomes :
        /\ Idle
        /\ op' = "smartapp"
        /\ inp' = [context |-> context, dispatched |-> dispatched]
        /\ out' = Return(smartapp(dispatched))
        /\ log' = <<>>
        /\ netcalls' = 0
        /\ UNCHANGED <<config, definition, cache, threads>>

NextServer == Smartapp \/ Finish

SpecServer == InitServer /\ [][NextServer]_vars

(***************************************************************************)
(* smartapp/signature.py: retrieve_public_key called by several threads.   *)
(*                                                                         *)
(* lru_cache looks the arguments up, calls the function on a miss without  *)
(* holding a lock, and stores the result unless the arguments were stored  *)
(* while the call ran.  The lookup and the store are atomic; the call is   *)
(* the retry loop, one request to the key server at a time.                *)
(***************************************************************************)
MkCall(pc, key_id, attempts, o) == [pc |-> pc, key_id |-> key_id, attempts |-> attempts, out |-> o]

\* what a request to the key server comes to
Answers == {"ok", "Timeout"} \cup RetryableErrors

\* the store without the second lookup
LruStore_NoRecheck(c, args, value) == CacheInsert(c, args, value)

\* lru_cache after the call: the result is stored unless the same arguments
\* were added to the cache during the call
LruStore(c, args, value) == IF CacheIndex(c, args) # 0 THEN c ELSE CacheInsert(c, args, value)

\* a process whose threads share the key cache
InitConcurrent ==
    /\ config = MkConfig(TRUE, CLOCK_SKEW_SEC)
    /\ definition = MkDefinition("id-a", UrlA, <<>>, 0)
    /\ Fresh

\* thread t calls retrieve_public_key(key_server_url, key_id): the lookup
ThreadCall(t) ==
    \E key_id \in KeyIds :
        LET i == CacheIndex(cache, <<config.keyserver_url, key_id>>)
        IN  /\ threads[t].pc = "idle"
            /\ IF i # 0
               THEN /\ threads' = [threads EXCEPT ![t] = MkCall("returned", key_id, 0, Return(cache[i].value))]
                    /\ cache' = Append(RemoveAt(cache, i), cache[i])
               ELSE /\ threads' = [threads EXCEPT ![t] = MkCall("calling", key_id, 0, Return(None))]
                    /\ cache' = cache
            /\ UNCHANGED <<config, definition, op, inp, out, log, netcalls>>

\* one attempt of the retry loop of thread t: a request to the key server
ThreadAttempt(t) ==
    \E answer \in Answers :
        LET call == threads[t]
            attempts == call.attempts + 1
        IN  /\ call.pc = "calling"
            /\ threads' = [threads EXCEPT ![t] =
                  CASE answer = "ok" ->
                         MkCall("computed", call.key_id, attempts,
                                Return(KeyserverText(KeyUrl(config.keyserver_url, call.key_id))))
                    [] answer \in RetryableErrors /\ attempts < STOP_AFTER_ATTEMPT ->
                         MkCall("calling", call.key_id, attempts, Return(None))
                    [] answer \in RetryableErrors /\ attempts >= STOP_AFTER_ATTEMPT ->
                         MkCall("raised", call.key_id, attempts, Raise("RetryError", "RetryError", call.key_id, None))
                    [] OTHER ->
                         MkCall("raised", call.key_id, attempts, Raise(answer, answer, call.key_id, None))]
            /\ UNCHANGED <<config, definition, cache, op, inp, out, log, netcalls>>

\* the call of thread t has returned: lru_cache stores the result
ThreadStore(t) ==
    /\ threads[t].pc = "computed"
    /\ cache' = LruStore(cache, <<config.keyserver_url, threads[t].key_id>>, threads[t].out.value)
    /\ threads' = [threads EXCEPT ![t].pc = "returned"]
    /\ UNCHANGED <<config, definition, op, inp, out, log, netcalls>>

\* the caller in thread t takes the key or the exception
ThreadFinish(t) ==
    /\ threads[t].pc \in {"returned", "raised"}
    /\ threads' = [threads EXCEPT ![t] = NoCall]
    /\ UNCHANGED <<config, definition, cache, op, inp, out, log, netcalls>>

CallConcurrent == \E t \in Threads : ThreadCall(t)

AttemptConcurrent == \E t \in Threads : ThreadAttempt(t)

StoreConcurrent == \E t \in Threads : ThreadStore(t)

FinishConcurrent == \E t \in Threads : ThreadFinish(t)

\* the threads at work on the key cache
NextConcurrent == CallConcurrent \/ AttemptConcurrent \/ StoreConcurrent \/ FinishConcurrent

SpecConcurrent == InitConcurrent /\ [][NextConcurrent]_vars

(***************************************************************************)
(* smartapp/signature.py: retrieve_public_key with more keys than the      *)
(* cache holds.                                                            *)
(*                                                                         *)
(* A process fetches key after key from a key server that answers.  The    *)
(* log is the key ids it has asked for, in order.  Until the cache is full *)
(* every call asks for a new key; then a call asks for the first key that  *)
(* is not cached, for the least or for the most recently used one.         *)
(***************************************************************************)
\* the key ids in use
EvictionKeyIds == [i \in 1..(LRU_MAXSIZE + MaxRefetch) |-> "key-" \o ToString(i)]

\* the key ids that a cache holds
CachedKeyIds(c) == {c[i].args[2] : i \in 1..Len(c)}

\* the first key id that is not cached
FirstUncached(c) ==
    EvictionKeyIds[CHOOSE i \in DOMAIN EvictionKeyIds :
        /\ EvictionKeyIds[i] \notin CachedKeyIds(c)
        /\ \A j \in 1..(i - 1) : EvictionKeyIds[j] \in CachedKeyIds(c)]

\* the key ids that the next call may ask for
NextKeyIds(c) ==
    IF Len(c) < LRU_MAXSIZE
    THEN {FirstUncached(c)}
    ELSE {FirstUncached(c), c[1].args[2], c[Len(c)].args[2]}

\* a process that has not fetched a key yet
InitEviction ==
    /\ config = MkConfig(TRUE, CLOCK_SKEW_SEC)
    /\ definition = MkDefinition("id-a", UrlA, <<>>, 0)
    /\ Fresh

\* retrieve_public_key(key_server_url, key_id), the key server answering
FetchKey ==
    \E key_id \in NextKeyIds(cache) :
        LET net == NetScript(0, "HTTPError", "ok")
            r == retrieve_public_key(cache, config.keyserver_url, key_id, net)
        IN  /\ Len(log) < LRU_MAXSIZE + MaxRefetch
            /\ op' = "fetch_key"
            /\ inp' = [key_id |-> key_id, net |-> net]
            /\ out' = r.out
            /\ log' = Append(log, key_id)
            /\ netcalls' = r.calls
            /\ cache' = r.cache
            /\ UNCHANGED <<config, definition, threads>>

NextEviction == FetchKey

SpecEviction == InitEviction /\ [][NextEviction]_vars

(***************************************************************************)
(* sensortrack/smartthings.py: the SmartThings API client.                 *)
(*                                                                         *)
(* The API is told by whether it answers each of the three requests with   *)
(* success, and by the location it serves.  The log is the requests sent.  *)
(***************************************************************************)
WEATHER_LOOKUP_TIMER == "weather-lookup"

\* Location(location_id, name, country_code, latitude, longitude)
MkLocation(country_code, latitude, longitude) ==
    [location_id |-> "location", country_code |-> country_code, latitude |-> latitude, longitude |-> longitude]

\* an eligibility that every location has
weather_eligible_Always(location) == TRUE

\* Location.weather_eligible
weather_eligible(location) ==
    location.country_code = "USA" /\ location.latitude # None /\ location.longitude # None

\* a request to the API: requests.delete, requests.get, requests.post
ApiRequest(method, endpoint, json) == [method |-> method, endpoint |-> endpoint, json |-> json]

MkApi(delete_ok, get_ok, post_ok, location) ==
    [delete_ok |-> delete_ok, get_ok |-> get_ok, post_ok |-> post_ok, location |-> location]

\* _raise_for_status: SmartThingsClientError for a response that is an error
_raise_for_status(ok) ==
    IF ok THEN Return(None) ELSE Raise("SmartThingsClientError", "Failed SmartThings API call", "response", None)

\* _delete_weather_lookup_timer
_delete_weather_lookup_timer(api) ==
    [out |-> _raise_for_status(api.delete_ok),
     log |-> <<ApiRequest("DELETE", <<"schedules", WEATHER_LOOKUP_TIMER>>, None)>>]

\* retrieve_location
retrieve_location(api) ==
    [out |-> IF api.get_ok THEN Return(api.location) ELSE _raise_for_status(api.get_ok),
     log |-> <<ApiRequest("GET", <<"locations", "location">>, None)>>]

\* _create_weather_lookup_timer(location, cron)
_create_weather_lookup_timer(api, location, cron) ==
    [out |-> _raise_for_status(api.post_ok),
     log |-> <<ApiRequest("POST", <<"schedules", WEATHER_LOOKUP_TIMER>>,
                          [name |-> location.location_id, expression |-> cron, timezone |-> "UTC"])>>]

\* bool(cron) for an Optional[str]
Truthy(cron) == cron \notin {None, ""}

\* schedule_weather_lookup_timer(enabled, cron): the outcome and the requests
\* sent
schedule_weather_lookup_timer(api, enabled, cron) ==
    LET deleted == _delete_weather_lookup_timer(api)
        located == retrieve_location(api)
        created == _create_weather_lookup_timer(api, located.out.value, cron)
    IN  IF IsRaise(deleted.out) THEN deleted
        ELSE IF ~(enabled /\ Truthy(cron)) THEN deleted
        ELSE IF IsRaise(located.out) THEN [out |-> located.out, log |-> deleted.log \o located.log]
        ELSE IF ~weather_eligible(located.out.value) THEN [out |-> Return(None), log |-> deleted.log \o located.log]
        ELSE [out |-> created.out, log |-> deleted.log \o located.log \o created.log]

(***************************************************************************)
(* The client at work.                                                     *)
(***************************************************************************)
Locations ==
    {MkLocation(c, lat, lon) : c \in {"USA", "CAN"}, lat \in {None, "41.02"}, lon \in {None, "-97.37"}}

Apis == {MkApi(d, g, p, l) : d \in BOOLEAN, g \in BOOLEAN, p \in BOOLEAN, l \in Locations}

Crons == {None, "", "0 0/15 * * ? *"}

InitSmartThings ==
    /\ config = MkConfig(TRUE, CLOCK_SKEW_SEC)
    /\ definition = MkDefinition("id-a", UrlA, <<>>, 0)
    /\ Fresh

ScheduleWeatherLookupTimer ==
    \E api \in Apis, enabled \in BOOLEAN, cron \in Crons :
        LET r == schedule_weather_lookup_timer(api, enabled, cron)
        IN  /\ Idle
            /\ op' = "schedule_weather_lookup_timer"
            /\ inp' = [api |-> api, enabled |-> enabled, cron |-> cron]
            /\ out' = r.out
            /\ log' = r.log
            /\ netcalls' = Len(r.log)
            /\ UNCHANGED <<config, definition, cache, threads>>

NextSmartThings == ScheduleWeatherLookupTimer \/ Finish

SpecSmartThings == InitSmartThings /\ [][NextSmartThings]_vars

(***************************************************************************)
(* smartapp/dispatcher.py: a walk through the configuration pages.         *)
(*                                                                         *)
(* The platform sends CONFIGURATION/INITIALIZE, then CONFIGURATION/PAGE    *)
(* for the first_page_id, then for the next_page_id of each response until *)
(* a response has none.  The log is the calls of all its requests.         *)
(***************************************************************************)
WalkDefinitions == {MkDefinition("id-a", UrlA, <<"r:devices:*">>, n) : n \in 1..MaxWalkPages}

\* the request of the walk for a configuration phase and page id
WalkContext(cphase, page_id) ==
    MkContext(MkHeaders(Corr, Absent, Absent, Absent),
              MkBody("object", "CONFIGURATION", TRUE, cphase, page_id, "STRING", "exec-1"))

\* the page id that a response tells the platform to ask for next
NextPageOf(response) ==
    IF response.type = "ConfigurationInitResponse" THEN response.first_page_id ELSE response.next_page_id

\* the last request of the walk was answered, and the answer names a page to
\* ask for next
WalkGoesOn ==
    /\ op = "walk"
    /\ out.value.status = 200
    /\ NextPageOf(out.value.payload.of) # NoneStr

InitWalk ==
    /\ config = MkConfig(FALSE, CLOCK_SKEW_SEC)
    /\ definition \in WalkDefinitions
    /\ Fresh

\* dispatch of CONFIGURATION/INITIALIZE, the first request of a walk
WalkInitialize ==
    \E handler \in Handlers :
        LET context == WalkContext("INITIALIZE", <<>>)
            r == dispatch(definition, context, handler)
        IN  /\ Idle
            /\ op' = "walk"
            /\ inp' = [context |-> context, handler |-> handler]
            /\ out' = r.out
            /\ log' = r.log
            /\ netcalls' = 0
            /\ UNCHANGED <<config, definition, cache, threads>>

\* dispatch of CONFIGURATION/PAGE for the page id that the last response names
WalkNextPage ==
    \E handler \in Handlers :
        /\ WalkGoesOn
        /\ LET context == WalkContext("PAGE", NextPageOf(out.value.payload.of))
               r == dispatch(definition, context, handler)
           IN  /\ op' = "walk"
               /\ inp' = [context |-> context, handler |-> handler]
               /\ out' = r.out
               /\ log' = log \o r.log
               /\ netcalls' = 0
               /\ UNCHANGED <<config, definition, cache, threads>>

NextWalk == WalkInitialize \/ WalkNextPage

SpecWalk == InitWalk /\ [][NextWalk]_vars

(***************************************************************************)
(* Properties.                                                             *)
(***************************************************************************)
\* the handler calls in a log
HandlerCalls(l) == {i \in 1..Len(l) : l[i].ev = "handler"}

VerifierCalls(l) == {i \in 1..Len(l) : l[i].ev \in {"SignatureVerifier", "verify"}}

Dispatched == op = "dispatch"

\* the request of the last dispatch as the converter parses it
Parsed == from_json(inp.context.body)

\* what SignatureVerifier(context, config, definition).verify() does for the
\* request of the last dispatch
WouldVerify == construct_and_verify(inp.context, config, definition, cache, inp.now2, inp.net)

\* C1: with check_signatures enabled, a SignatureError raised by verify() is
\* raised by dispatch unchanged, no event handler is called and nothing is
\* returned.
C1_SignatureErrorPropagates ==
    (Dispatched /\ config.check_signatures /\ IsRaise(WouldVerify.out)
        /\ WouldVerify.out.exc = "SignatureError")
    => (out = WouldVerify.out /\ HandlerCalls(log) = {})

\* C2: with check_signatures enabled every dispatch constructs a verifier and
\* calls verify() exactly once, before any event handler; with
\* check_signatures disabled no verifier is constructed or called.
C2_VerifyOnceBeforeHandler ==
    Dispatched =>
        IF config.check_signatures
        THEN /\ Cardinality({i \in 1..Len(log) : log[i].ev = "SignatureVerifier"}) = 1
             /\ Cardinality({i \in 1..Len(log) : log[i].ev = "verify"}) = 1
             /\ \A i \in VerifierCalls(log), j \in HandlerCalls(log) : i < j
        ELSE VerifierCalls(log) = {}

\* C7: a body that is not JSON or not a valid lifecycle request makes dispatch
\* fail with BadRequestError carrying the correlation id of the
\* x-st-correlation header, and no event handler is called.
C7_BadRequestError ==
    (Dispatched /\ ~config.check_signatures /\ IsRaise(Parsed))
    => /\ IsRaise(out)
       /\ out.exc = "BadRequestError"
       /\ out.correlation_id = correlation_id(inp.context)
       /\ HandlerCalls(log) = {}

\* C8: when the event handler raises while a valid request is handled,
\* dispatch fails with InternalError carrying the correlation id of the
\* request; no response is returned.
C8_InternalError ==
    (Dispatched /\ ~config.check_signatures /\ ~IsRaise(Parsed) /\ inp.handler.raises)
    => /\ IsRaise(out)
       /\ out.exc = "InternalError"
       /\ out.correlation_id = correlation_id(inp.context)

\* C9: for a valid request of phase P dispatch calls the event handler method
\* of P exactly once, with the correlation id and the parsed request, before
\* the response is built, and calls no handler method of another phase.
C9_OneHandlerCallOfThePhase ==
    (Dispatched /\ ~IsRaise(Parsed)) =>
        /\ Cardinality(HandlerCalls(log)) = 1
        /\ \A i \in HandlerCalls(log) :
              /\ log[i].phase = Parsed.value.lifecycle
              /\ log[i].correlation_id = correlation_id(inp.context)
              /\ log[i].request = Parsed.value
              /\ \A j \in 1..Len(log) : log[j].ev = "response" => i < j

\* a valid EVENT request was dispatched: its handler was called and the
\* response built
C9_Witness ==
    /\ Dispatched
    /\ ~IsRaise(Parsed)
    /\ Parsed.value.lifecycle = "EVENT"
    /\ correlation_id(inp.context) = "AAAA"
    /\ Len(log) = 2
    /\ log[1].ev = "handler"
    /\ log[2].ev = "response"

\* the response that the phase and the definition call for
ResponseOf(lifecycle, def) ==
    CASE lifecycle = "CONFIRMATION" -> [type |-> "ConfirmationResponse", target_url |-> def.target_url]
      [] lifecycle = "CONFIGURATION" ->
            [type |-> "ConfigurationInitResponse", id |-> def.id, name |-> def.name,
             description |-> def.description, permissions |-> def.permissions, first_page_id |-> <<"1">>]
      [] lifecycle = "INSTALL" -> [type |-> "InstallResponse", install_data |-> <<>>]
      [] lifecycle = "UPDATE" -> [type |-> "UpdateResponse", update_data |-> <<>>]
      [] lifecycle = "UNINSTALL" -> [type |-> "UninstallResponse", uninstall_data |-> <<>>]
      [] lifecycle = "OAUTH_CALLBACK" -> [type |-> "OauthCallbackResponse", o_auth_callback_data |-> <<>>]
      [] lifecycle = "EVENT" -> [type |-> "EventResponse", event_data |-> <<>>]

Succeeded == Dispatched /\ ~IsRaise(out) /\ out.value.status = 200

\* C10: the response to a successfully handled request other than a
\* CONFIGURATION/PAGE request is the one that its phase and the definition
\* determine, whatever the handler returns and whatever else the request holds.
C10_ResponseOfPhaseAndDefinition ==
    (Succeeded /\ ~(Parsed.value.lifecycle = "CONFIGURATION" /\ Parsed.value.phase = "PAGE"))
    => out.value.payload = to_json(ResponseOf(Parsed.value.lifecycle, definition))

\* a CONFIGURATION/INITIALIZE request that carries a page id, and whose
\* handler returns a value, was answered
C10_Witness ==
    /\ Succeeded
    /\ Parsed.value.lifecycle = "CONFIGURATION"
    /\ Parsed.value.phase = "INITIALIZE"
    /\ Parsed.value.page_id = <<"2">>
    /\ inp.handler.returns = "value"
    /\ definition.id = "id-b"

Verified == op = "verify"

\* the verifier of the last verification, when its construction succeeds
Constructed == ~IsRaise(SignatureVerifier(inp.context, config, definition))

Verifier == SignatureVerifier(inp.context, config, definition).value

Accepted == Verified /\ ~IsRaise(out)

\* the text that the key server serves for the key id of the request
ServedKey == KeyserverText(KeyUrl(config.keyserver_url, Verifier.key_id))

\* the date of the request is within the configured skew of the clock
DateIsCurrent == ~IsRaise(verify_date(Verifier, config, inp.now2))

\* the key of the request was retrieved: it is in the cache, where a fetch
\* that succeeds leaves it
KeyRetrieved == CacheIndex(cache, <<config.keyserver_url, Verifier.key_id>>) # 0

\* the signature attribute is the base64 of a signature that the private key
\* of the served public key made over the signing string of the verifier
SignatureIsValid ==
    /\ Verifier.signature.b64
    /\ ServedKey.parses
    /\ Verifier.signature.signer = ServedKey.pub
    /\ Verifier.signature.msg = Verifier.signing_string

\* C3: verify() returns normally only for a valid RSA-SHA256 signature of the
\* signing string under the key retrieved for keyId; a signature that does
\* not decode, a key that does not parse, another key or another signing
\* string each make it raise SignatureError "Signature is not valid" with the
\* correlation id.
C3_OnlyValidSignaturesVerify ==
    /\ Accepted => (Constructed /\ SignatureIsValid)
    /\ (Verified /\ Constructed /\ DateIsCurrent /\ ~SignatureIsValid
            /\ (Verifier.signature.b64 => KeyRetrieved))
       => out = SigError("Signature is not valid", "signature", correlation_id(inp.context))

\* a request signed with a key other than the one the key id names was
\* verified, and refused as not valid
C3_Witness ==
    /\ Verified
    /\ Constructed
    /\ Verifier.signature.b64
    /\ ServedKey.parses
    /\ Verifier.signature.signer # ServedKey.pub
    /\ Verifier.signature.msg = Verifier.signing_string
    /\ IsRaise(out)
    /\ out.exc = "SignatureError"
    /\ out.message = "Signature is not valid"
    /\ out.correlation_id = "AAAA"

\* the line of the signing string for digest
DigestLines == {i \in 1..Len(Verifier.signing_string) : Verifier.signing_string[i].name = "digest"}

\* C4: when digest is among the signed headers its line is the SHA-256 digest
\* of the body received, so a request whose body is not the one that was
\* signed does not pass verification.
C4_DigestOfTheBodyReceived ==
    (Accepted /\ Constructed) =>
        \A i \in DigestLines : Verifier.signing_string[i].value = Sha256Digest(inp.context.body)

VerifiedDate == op = "verify_date"

\* C5: verify_date succeeds exactly when clock_skew_sec is None or the
\* difference between now and the Date of the request, in whole seconds and
\* in either direction, is at most clock_skew_sec.
C5_DateWithinSkew ==
    VerifiedDate =>
        (~IsRaise(out) <=>
            (config.clock_skew_sec = NoSkew
                \/ Abs(inp.now2 - 2 * Verifier.date) \div 2 <= config.clock_skew_sec))

\* the algorithm that the Authorization header of the last verification names
NamesAlgorithm ==
    /\ HeaderFound(inp.context, AUTHORIZATION_HEADER)
    /\ HeaderValue(inp.context, AUTHORIZATION_HEADER).t = "auth"
    /\ HeaderValue(inp.context, AUTHORIZATION_HEADER).algorithm # None

NamedAlgorithm == HeaderValue(inp.context, AUTHORIZATION_HEADER).algorithm

\* the checks that come before the one of the algorithm pass: the Date header
\* is a date and the Authorization header is a signature with its attributes
AlgorithmIsChecked ==
    /\ ~IsRaise(_default_date(inp.context))
    /\ ~IsRaise(_default_signing_attributes(inp.context, HeaderValue(inp.context, AUTHORIZATION_HEADER)))

\* C6 as stated: every request that names an algorithm other than rsa-sha256
\* is refused with SignatureError "Algorithm not supported" naming the
\* algorithm.
C6_AlwaysAlgorithmNotSupported ==
    (Verified /\ NamesAlgorithm /\ NamedAlgorithm # "rsa-sha256") =>
        out = SigError("Algorithm not supported", NamedAlgorithm, correlation_id(inp.context))

\* C6, amended: a request that names an algorithm other than rsa-sha256 is
\* never accepted; where the Date header is a date and the Authorization
\* header is a signature with its keyId, algorithm and signature attributes,
\* it is refused with SignatureError "Algorithm not supported" naming the
\* algorithm.
C6_OnlyRsaSha256 ==
    (Verified /\ NamesAlgorithm /\ NamedAlgorithm # "rsa-sha256") =>
        /\ IsRaise(out)
        /\ AlgorithmIsChecked =>
              out = SigError("Algorithm not supported", NamedAlgorithm, correlation_id(inp.context))

\* a request that is well signed but names hmac-sha256 was refused
C6_Witness ==
    /\ Verified
    /\ NamesAlgorithm
    /\ NamedAlgorithm = "hmac-sha256"
    /\ AlgorithmIsChecked
    /\ HeaderValue(inp.context, AUTHORIZATION_HEADER).signature.signer = "A"
    /\ IsRaise(out)
    /\ out.message = "Algorithm not supported"
    /\ out.arg = "hmac-sha256"

\* the last dispatch was of a valid CONFIGURATION/PAGE request
PageRequested ==
    /\ Dispatched
    /\ ~IsRaise(Parsed)
    /\ Parsed.value.lifecycle = "CONFIGURATION"
    /\ Parsed.value.phase = "PAGE"

\* the number p that the page id of the request stands for
RequestedPage == ParseInt(Parsed.value.page_id)

PageInRange ==
    /\ IntParses(Parsed.value.page_id)
    /\ RequestedPage >= 1
    /\ RequestedPage <= Len(definition.config_pages)

\* C11: for a CONFIGURATION/PAGE request with page id p, 1 <= p <= n, that the
\* handler lets through, the page response echoes the page id, has name and
\* sections of config_pages[p-1], previous_page_id None for p = 1 and
\* str(p-1) otherwise, next_page_id None for p >= n and str(p+1) otherwise,
\* and complete = (p >= n).
C11_Pagination ==
    (PageRequested /\ PageInRange /\ ~inp.handler.raises) =>
        LET n == Len(definition.config_pages)
            page == definition.config_pages[RequestedPage]
        IN  /\ Succeeded
            /\ out.value.payload.of.type = "ConfigurationPageResponse"
            /\ out.value.payload.of.page_id = Parsed.value.page_id
            /\ out.value.payload.of.name = page.page_name
            /\ out.value.payload.of.sections = page.sections
            /\ out.value.payload.of.previous_page_id =
                  (IF RequestedPage = 1 THEN NoneStr ELSE IntToStr(RequestedPage - 1))
            /\ out.value.payload.of.next_page_id =
                  (IF RequestedPage >= n THEN NoneStr ELSE IntToStr(RequestedPage + 1))
            /\ out.value.payload.of.complete = (RequestedPage >= n)

\* page 1 of 2 was asked for and answered: no previous page, next page "2",
\* not complete
C11_Witness ==
    /\ PageRequested
    /\ Succeeded
    /\ Len(definition.config_pages) = 2
    /\ Parsed.value.page_id = <<"1">>
    /\ out.value.payload.of.previous_page_id = NoneStr
    /\ out.value.payload.of.next_page_id = <<"2">>
    /\ out.value.payload.of.complete = FALSE

\* the verification got as far as asking for the key
KeyWanted == Verified /\ Constructed /\ DateIsCurrent /\ Verifier.signature.b64

\* C12: when the public key cannot be retrieved, also when every attempt of
\* the retry has failed, verify() fails with SignatureError "Failed to
\* retrieve key" naming the key id and carrying the correlation id; no
\* network or retry exception reaches the caller.
C12_KeyFailureIsSignatureError ==
    (KeyWanted /\ ~KeyRetrieved) =>
        out = SigError("Failed to retrieve key", Verifier.key_id, correlation_id(inp.context))

Retrieved == op = "retrieve_public_key"

\* the arguments of the last retrieve_public_key
RetrievedArgs == <<config.keyserver_url, inp.key_id>>

\* the results that a cache holds for given arguments
CachedValues(c, args) == {c[i].value : i \in {j \in 1..Len(c) : c[j].args = args}}

\* C13: a result that retrieve_public_key returns is kept (nothing is evicted
\* while fewer than LRU_MAXSIZE keys are in use), and a call whose arguments
\* have a kept result returns that result without a request to the key server.
C13_CachedKeyNeedsNoRequest ==
    [][/\ (Retrieved' /\ ~IsRaise(out')) => CachedValues(cache', RetrievedArgs') = {out'.value}
       /\ \A i \in 1..Len(cache) : cache[i].value \in CachedValues(cache', cache[i].args)
       /\ (Retrieved' /\ CachedValues(cache, RetrievedArgs') # {}) =>
              /\ netcalls' = 0
              /\ ~IsRaise(out')
              /\ CachedValues(cache, RetrievedArgs') = {out'.value}]_vars

\* a key was returned from the cache while the key server was failing
C13_Witness ==
    /\ Retrieved
    /\ ~IsRaise(out)
    /\ netcalls = 0
    /\ inp.net.failures = STOP_AFTER_ATTEMPT
    /\ Len(cache) = 2

\* C14: a retrieve_public_key that fails leaves the cache as it was, a call
\* whose arguments are not cached goes to the key server, and when the first
\* attempt fails with a retryable error and the second succeeds the call
\* returns the key after exactly 2 requests and the key is cached.
C14_OnlySuccessIsCached ==
    [][Retrieved' =>
          /\ IsRaise(out') => (cache' = cache /\ CachedValues(cache', RetrievedArgs') = {})
          /\ CachedValues(cache, RetrievedArgs') = {} => netcalls' >= 1
          /\ (CachedValues(cache, RetrievedArgs') = {} /\ inp'.net.failures = 1 /\ inp'.net.final = "ok") =>
                /\ netcalls' = 2
                /\ out' = Return(KeyserverText(KeyUrl(config.keyserver_url, inp'.key_id)))
                /\ CachedValues(cache', RetrievedArgs') = {out'.value}]_vars

\* a fetch failed at first, succeeded at the second attempt, and its key is
\* cached
C14_Witness ==
    /\ Retrieved
    /\ inp.net.failures = 1
    /\ inp.net.failure = "ConnectionError"
    /\ netcalls = 2
    /\ ~IsRaise(out)
    /\ CachedValues(cache, RetrievedArgs) = {Pem("A")}

\* C15: when every attempt fails with a retryable error, one call of
\* retrieve_public_key with uncached arguments makes exactly 6 requests (5
\* retries) and then gives up; no call makes more than 6.
C15_SixAttempts ==
    [][Retrieved' =>
          /\ netcalls' <= 6
          /\ (CachedValues(cache, RetrievedArgs') = {} /\ inp'.net.failures >= 6) =>
                (netcalls' = 6 /\ IsRaise(out'))]_vars

RoundTripped == op \in {"json_roundtrip", "yaml_roundtrip"}

\* C16 as stated: for every valid object x, whatever its attribute values,
\* from_json(to_json(x)) and from_yaml(to_yaml(x)) are objects equal to x
\* attribute for attribute.
C16_RoundTripOfEveryObject ==
    RoundTripped => (~IsRaise(out) /\ ObjectsEqual(out.value, inp.x))

\* the values that the wire form holds as they are: event times that are a
\* whole number of milliseconds and not within the first millisecond of the
\* epoch, and values of type Any that JSON and YAML have (no tuple)
KeptByTheWire(x) ==
    /\ \A i \in 1..Len(x.event_time) : x.event_time[i].us % 1000 = 0 /\ x.event_time[i].us >= 1000
    /\ x.settings.kind # "tuple"

\* C16, amended: the round trip through JSON and through YAML gives an object
\* equal to x attribute for attribute when every event_time of x is a whole
\* number of milliseconds other than the UNIX epoch and its values of type
\* Any are JSON values.
C16_RoundTrip ==
    (RoundTripped /\ KeptByTheWire(inp.x)) => (~IsRaise(out) /\ ObjectsEqual(out.value, inp.x))

\* an EVENT request with an event time in another zone went through YAML and
\* came back equal, with its secret token
C16_Witness ==
    /\ op = "yaml_roundtrip"
    /\ inp.x.cls = "EventRequest"
    /\ inp.x.event_time = <<MkDateTime(5469000, "America/Chicago")>>
    /\ ~IsRaise(out)
    /\ out.value.cls = "EventRequest"
    /\ out.value.event_time = <<MkDateTime(5469000, "UTC")>>
    /\ out.value.auth_token = "authTokenValue"

\* the string form of a request that carries tokens was made
SecretsShown == op = "repr" /\ inp.x.cls \in {"InstallRequest", "UpdateRequest", "EventRequest"}

\* the object with other tokens in the place of its own
WithOtherTokens(x) ==
    [x EXCEPT !.auth_token = "another token", !.refresh_token = "another refresh token"]

\* C17: the string form of an InstallRequest, UpdateRequest or EventRequest
\* shows neither auth_token nor refresh_token, no attribute it shows has the
\* value of a token, and it is the same whatever the tokens are; the JSON of
\* the same object holds both values.
C17_StringFormHidesTokens ==
    SecretsShown =>
        /\ DOMAIN out.value.shown \cap SecretAttributes = {}
        /\ \A n \in DOMAIN out.value.shown \cap {"lifecycle", "execution_id"} :
              out.value.shown[n] \notin {inp.x.auth_token, inp.x.refresh_token}
        /\ out.value = Repr(WithOtherTokens(inp.x))
        /\ StandardConverter_to_json(inp.x).data.authToken = inp.x.auth_token
        /\ StandardConverter_to_json(inp.x).data.refreshToken = inp.x.refresh_token

\* the string form of an UPDATE request with both tokens was made
C17_Witness ==
    /\ SecretsShown
    /\ inp.x.cls = "UpdateRequest"
    /\ inp.x.auth_token = "authTokenValue"
    /\ inp.x.refresh_token = "refreshTokenValue"
    /\ out.value.shown.execution_id = "exec-1"

DatetimeSerialized == op = "serialize_datetime"

DatetimeDeserialized == op = "deserialize_datetime"

\* the two forms of string that stand for a date
DateForms == {"ms", "sec"}

\* C18: serialize_datetime gives the instant in UTC cut to milliseconds, in
\* the form with milliseconds and Z; deserialize_datetime takes the form with
\* milliseconds and the form without, gives now() for the epoch in either
\* form and the instant of the string otherwise, and raises ValueError for
\* every other string.
C18_DatetimeForms ==
    /\ DatetimeSerialized =>
          /\ out.value.form = "ms"
          /\ out.value.ms * 1000 <= inp.datetime.us
          /\ inp.datetime.us < (out.value.ms + 1) * 1000
    /\ DatetimeDeserialized =>
          IF inp.datetime.form \notin DateForms
          THEN IsRaise(out) /\ out.exc = "ValueError"
          ELSE IF inp.datetime.ms = 0
          THEN out = Return(inp.now)
          ELSE out = Return(MkDateTime(inp.datetime.ms * 1000, "UTC"))

\* the epoch without milliseconds was parsed, and gave now()
C18_Witness ==
    /\ DatetimeDeserialized
    /\ inp.datetime = MkDateString("sec", 0)
    /\ out = Return(MkDateTime(9000123, "America/Chicago"))

Served == op = "smartapp"

ThreadArgs(t) == <<config.keyserver_url, threads[t].key_id>>

\* the cache entries for the arguments
EntriesFor(args) == {i \in 1..Len(cache) : cache[i].args = args}

\* a step of thread t
ThreadStep(t) == ThreadCall(t) \/ ThreadAttempt(t) \/ ThreadStore(t) \/ ThreadFinish(t)

\* C20: when threads fetch the same uncached key at once, no thread waits
\* for another (every thread can always take its next step, so nothing
\* deadlocks), the cache never holds two entries for the same arguments nor
\* a value that the key server did not serve for them, every thread whose
\* fetch succeeded has the key, and once a thread has the key the cache
\* holds exactly one entry for it.
C20_ConcurrentFetch ==
    /\ \A t \in Threads : ENABLED ThreadStep(t)
    /\ Len(cache) <= LRU_MAXSIZE
    /\ \A i \in 1..Len(cache) :
          /\ EntriesFor(cache[i].args) = {i}
          /\ cache[i].value = KeyserverText(KeyUrl(cache[i].args[1], cache[i].args[2]))
    /\ \A t \in Threads :
          threads[t].pc \in {"computed", "returned"} =>
              threads[t].out = Return(KeyserverText(KeyUrl(config.keyserver_url, threads[t].key_id)))
    /\ \A t \in Threads :
          threads[t].pc = "returned" => Cardinality(EntriesFor(ThreadArgs(t))) = 1

\* two threads fetched the same key at once, each with its own request to
\* the key server; both have the key and the cache holds one entry
C20_Witness ==
    \E t, u \in Threads :
        /\ t # u
        /\ threads[t].pc = "returned"
        /\ threads[u].pc = "returned"
        /\ threads[t].key_id = threads[u].key_id
        /\ threads[t].attempts >= 1
        /\ threads[u].attempts >= 1
        /\ Cardinality(EntriesFor(ThreadArgs(t))) = 1

\* C21: constructing a SignatureVerifier and calling verify() returns or
\* fails with SignatureError; no other exception escapes, whatever the
\* request, its Date header and its Authorization header are.
C21_OnlySignatureError ==
    Verified => (~IsRaise(out) \/ out.exc = "SignatureError")

KeyFetched == op = "fetch_key"

\* the key ids asked for before the last call
EarlierCalls == SubSeq(log, 1, Len(log) - 1)

\* the LRU_MAXSIZE key ids most recently asked for in a sequence of calls:
\* those with at most LRU_MAXSIZE different key ids from their last call on
RecentKeyIds(calls) ==
    {calls[i] : i \in {j \in 1..Len(calls) :
                          Cardinality({calls[k] : k \in j..Len(calls)}) <= LRU_MAXSIZE}}

\* C22: the cache never holds more than 32 entries; it holds the 32 keys
\* most recently fetched, so a call for one of them sends no request to the
\* key server, while a call for any other key, also for one that was cached
\* and has been evicted, sends a request again.
C22_LruEviction ==
    /\ Len(cache) <= LRU_MAXSIZE
    /\ CachedKeyIds(cache) = RecentKeyIds(log)
    /\ KeyFetched => (netcalls = 0 <=> inp.key_id \in RecentKeyIds(EarlierCalls))

\* a key that was cached and then evicted by the 33rd key was fetched again,
\* with a request to the key server
C22_Witness ==
    /\ KeyFetched
    /\ Len(log) > LRU_MAXSIZE + 1
    /\ inp.key_id = log[1]
    /\ inp.key_id \notin RecentKeyIds(EarlierCalls)
    /\ netcalls = 1
    /\ Len(cache) = LRU_MAXSIZE

\* the last verification got as far as parsing the Authorization header: the
\* Date header is a date and there is an Authorization header
AuthorizationParsed ==
    /\ Verified
    /\ ~IsRaise(_default_date(inp.context))
    /\ HeaderFound(inp.context, AUTHORIZATION_HEADER)

SentAuthorization == HeaderValue(inp.context, AUTHORIZATION_HEADER)

IsSignature(a) == a.t = "auth" /\ a.scheme = "Signature"

\* the attributes without a default that an Authorization header lacks
MissingAttributes(a) ==
    {n \in {"keyId", "algorithm", "signature"} :
        \/ n = "keyId" /\ a.keyId = None
        \/ n = "algorithm" /\ a.algorithm = None
        \/ n = "signature" /\ ~a.given_signature}

\* C23: an Authorization header that does not start with "Signature " fails
\* with SignatureError "Authorization header is not a signature"; one that
\* lacks keyId, algorithm or signature fails with SignatureError "Signature
\* does not contain" naming a missing attribute; one that lacks only the
\* headers attribute is taken with the headers "Date", so that the signing
\* string is the line of the Date header alone.
C23_AuthorizationParse ==
    AuthorizationParsed =>
        IF ~IsSignature(SentAuthorization)
        THEN out = SigError("Authorization header is not a signature", "authorization",
                            correlation_id(inp.context))
        ELSE IF MissingAttributes(SentAuthorization) # {}
        THEN /\ IsRaise(out)
             /\ out.exc = "SignatureError"
             /\ out.message = "Signature does not contain"
             /\ out.arg \in MissingAttributes(SentAuthorization)
             /\ out.correlation_id = correlation_id(inp.context)
        ELSE ~SentAuthorization.given_headers =>
                /\ IsRaise(out) => out.message # "Signature does not contain"
                /\ SentAuthorization.algorithm = "rsa-sha256" =>
                      /\ Constructed
                      /\ Verifier.signing_string =
                             <<Line("date", HeaderValue(inp.context, DATE_HEADER))>>

\* a request signed over its Date alone, with no headers attribute, was
\* accepted
C23_Witness ==
    /\ AuthorizationParsed
    /\ IsSignature(SentAuthorization)
    /\ ~SentAuthorization.given_headers
    /\ ~IsRaise(out)

\* the last verification got as far as the signing string: the date, the
\* attributes of the Authorization header and the algorithm were taken
SigningStringWanted ==
    /\ AuthorizationParsed
    /\ ~IsRaise(_default_signing_attributes(inp.context, SentAuthorization))
    /\ SentAuthorization.algorithm = "rsa-sha256"

\* the names of the headers attribute, "Date" when it is not given
ListedNames == IF SentAuthorization.given_headers THEN SentAuthorization.headers ELSE <<"Date">>

\* the headers of the request whose name is the given one but for case, and
\* whose value is neither empty nor blank
SentAs(name) ==
    {n \in DOMAIN inp.context.headers :
        /\ Lower(n) = Lower(name)
        /\ inp.context.headers[n] \notin {Text(""), Text(" ")}}

\* the listed names that have no such header
NotSent == {i \in 1..Len(ListedNames) : ListedNames[i] # "(request-target)" /\ SentAs(ListedNames[i]) = {}}

\* "post " with the path and the query string of the configured target_url
ConfiguredTarget ==
    [t |-> "target", method |-> "post",
     path |-> IF definition.target_url.query = ""
              THEN definition.target_url.path
              ELSE definition.target_url.path \o "?" \o definition.target_url.query]

\* C24: the signing string has one line per name of the headers attribute,
\* in the listed order, of the lowercased name and the value: for
\* (request-target) "post" with the path and query of the configured
\* target_url, for every other name the request header of that name in any
\* case; when a listed header is absent, empty or blank, construction fails
\* with SignatureError "Header not found" naming the first such header.
C24_SigningString ==
    SigningStringWanted =>
        IF NotSent = {}
        THEN /\ Constructed
             /\ Len(Verifier.signing_string) = Len(ListedNames)
             /\ \A i \in 1..Len(ListedNames) :
                   IF ListedNames[i] = "(request-target)"
                   THEN Verifier.signing_string[i] = Line("(request-target)", ConfiguredTarget)
                   ELSE \E n \in SentAs(ListedNames[i]) :
                            Verifier.signing_string[i] = Line(Lower(n), inp.context.headers[n])
        ELSE out = SigError("Header not found",
                            ListedNames[CHOOSE i \in NotSent : \A j \in NotSent : i <= j],
                            correlation_id(inp.context))

\* a request that lists (request-target), host, date and digest was verified
\* against a target_url that has a query string, and accepted
C24_Witness ==
    /\ SigningStringWanted
    /\ ListedNames = <<"(request-target)", "host", "date", "digest">>
    /\ definition.target_url.query # ""
    /\ NotSent = {}
    /\ ~IsRaise(out)

\* C25: when an attempt of a key fetch fails with an error that is not
\* retryable, no further attempt is made: the error is the outcome of the
\* call, the requests sent are those up to the failed attempt (exactly one
\* when the first attempt fails so), and the cache is as it was.
C25_NoRetryOfOtherErrors ==
    [][(/\ Retrieved'
        /\ CachedValues(cache, RetrievedArgs') = {}
        /\ inp'.net.failures < STOP_AFTER_ATTEMPT
        /\ inp'.net.final \notin RetryableErrors \cup {"ok"}) =>
          /\ IsRaise(out')
          /\ out'.exc = inp'.net.final
          /\ netcalls' = inp'.net.failures + 1
          /\ inp'.net.failures = 0 => netcalls' = 1
          /\ cache' = cache]_vars

\* the first attempt of a fetch timed out: one request was sent, the timeout
\* is the outcome and the key is not cached
C25_Witness ==
    /\ Retrieved
    /\ inp.net.failures = 0
    /\ inp.net.final = "Timeout"
    /\ netcalls = 1
    /\ IsRaise(out)
    /\ out.exc = "Timeout"
    /\ CachedValues(cache, RetrievedArgs) = {}

Scheduled == op = "schedule_weather_lookup_timer"

\* the requests of the log that use a method
RequestsBy(method) == {i \in 1..Len(log) : log[i].method = method}

\* the location that the API serves is in the USA and has both coordinates
LocationIsEligible ==
    /\ inp.api.location.country_code = "USA"
    /\ inp.api.location.latitude # None
    /\ inp.api.location.longitude # None

CronIsGiven == inp.cron # None /\ inp.cron # ""

VerifierShown == op = "repr_verifier"

\* C27: the string form of a SignatureVerifier does not show the body of the
\* request.
C27_ReprHidesBody ==
    VerifierShown => \A n \in DOMAIN out.value.shown : n # "body"

Walked == op = "walk"

\* the requests for a page that the handler was called with, in order
IsPageCall(e) == e.ev = "handler" /\ e.request.phase = "PAGE"

PageCalls == SelectSeq(log, IsPageCall)

\* the last request of the walk was answered
WalkAnswered == Walked /\ out.value.status = 200

\* C28: for a definition with n >= 1 pages, the walk that starts at the
\* first_page_id of CONFIGURATION/INITIALIZE and follows next_page_id asks
\* for the pages 1, 2, ... in that order, each once and never more than n;
\* the response for page p < n has complete false and next_page_id p+1, the
\* response for page n has complete true and no next_page_id, after which
\* the walk has no further request; previous_page_id is the page asked for
\* just before, none on page 1.
C28_WalkThroughPages ==
    Walked =>
        LET n == Len(definition.config_pages)
            p == Len(PageCalls)
            response == out.value.payload.of
        IN  /\ p <= n
            /\ \A i \in 1..p : PageCalls[i].request.page_id = IntToStr(i)
            /\ (WalkAnswered /\ p = 0) => response.first_page_id = IntToStr(1)
            /\ (WalkAnswered /\ p >= 1) =>
                  /\ response.type = "ConfigurationPageResponse"
                  /\ response.page_id = IntToStr(p)
                  /\ response.name = definition.config_pages[p].page_name
                  /\ response.complete = (p = n)
                  /\ response.next_page_id = (IF p = n THEN NoneStr ELSE IntToStr(p + 1))
                  /\ response.previous_page_id =
                        (IF p = 1 THEN NoneStr ELSE PageCalls[p - 1].request.page_id)
                  /\ response.complete <=> ~WalkGoesOn

\* a walk through at least three pages has reached the last page
C28_Witness ==
    /\ WalkAnswered
    /\ Len(definition.config_pages) >= 3
    /\ Len(PageCalls) = Len(definition.config_pages)
    /\ out.value.payload.of.complete
    /\ out.value.payload.of.next_page_id = NoneStr

\* the Authorization header of the last verification is missing or malformed
AuthorizationMalformed ==
    \/ ~HeaderFound(inp.context, AUTHORIZATION_HEADER)
    \/ ~IsSignature(SentAuthorization)
    \/ MissingAttributes(SentAuthorization) # {}

\* the Date of the request is further from the clock than the skew allows
DateOutsideSkew ==
    /\ config.clock_skew_sec # NoSkew
    /\ HeaderFound(inp.context, DATE_HEADER)
    /\ HeaderValue(inp.context, DATE_HEADER).t = "date"
    /\ Abs(inp.now2 - 2 * HeaderValue(inp.context, DATE_HEADER).secs) \div 2 > config.clock_skew_sec

\* C29: a verification of a request whose Date is outside the skew window,
\* whose algorithm is not supported or whose Authorization header is
\* malformed sends no request to the key server and leaves the cache as it
\* was.
C29_NoKeyBeforeChecks ==
    [][(Verified' /\ (AuthorizationMalformed' \/ (NamesAlgorithm' /\ NamedAlgorithm' # "rsa-sha256")
                       \/ DateOutsideSkew')) =>
          (netcalls' = 0 /\ cache' = cache)]_vars

\* C30: a CONFIGURATION/PAGE request whose page id is not a decimal integer
\* in 1..n, n the number of configuration pages, is not answered with a
\* page of the definition: dispatch fails.
C30_NoPageOutOfRange ==
    (PageRequested /\ ~PageInRange) => (IsRaise(out) \/ out.value.status # 200)

====
